---- MODULE Spec2Model ----
(***************************************************************************)
(* xhub: the record store (bookmarks, bookmarks_vec), the fetch cycle with *)
(* its enrichment pipeline, manual addition, the edit/delete commands of   *)
(* the TUI, and hybrid search.                                             *)
(*                                                                         *)
(* Times are naturals; 0 is Go's zero time.Time and SQL NULL for a         *)
(* timestamp column.  A Go string is bound as SQL text, never as NULL.     *)
(***************************************************************************)
EXTENDS Integers, Sequences, FiniteSets, TLC

VARIABLES
    bookmarks,      \* table bookmarks: a set of rows
    bookmarks_vec,  \* table bookmarks_vec: a set of [id, embedding]
    now,            \* the wall clock read by time.Now()
    fetch,          \* the running indexer.Fetch call (locals and position)
    tui,            \* the TUI: the bookmark copy held by the edit modal
    last,           \* the last store call: operation, argument, result, tables before
    prev,           \* summary of the store call before the last one
    manual,         \* the running indexer.AddManualURL call
    metadata,       \* table metadata: key -> value (0: no row)
    resum,            \* the resummarize command: position, snapshot and local copy
    cycles,           \* fetch cycles started so far
    commands,         \* manual additions and TUI modals so far
    sr,             \* the search entry points: inputs and result of the last call
    faults,         \* store calls the environment may still make fail
    sy,             \* the source adapters: the last two Fetch calls of a source
    log             \* the log of the fetch cycle, kept when it is switched on

vars == <<bookmarks, bookmarks_vec, now, fetch, tui, manual, resum, metadata, last, prev, commands, cycles, sr,
          faults, sy, log>>

----------------------------------------------------------------------------
(* Bounds *)

MaxTime == 2
MaxItems == 1
MaxCycles == 1
MaxCommands == 1

\* A starred repository has a github.com address and a tweet an x.com one;
\* Raindrop and manual addition take any address.
RepoURLs == {"https://github.com/o/r"}
TweetURLs == {"https://x.com/u/status/1"}
URLs == RepoURLs \cup TweetURLs
Times == 1..MaxTime

----------------------------------------------------------------------------
(* Helpers on sequences and sets *)

Range(s) == {s[i] : i \in DOMAIN s}

SeqsUpTo(S, n) == UNION {[1..k -> S] : k \in 0..n}

\* all orderings of a finite set
Perms(S) == {s \in [1..Cardinality(S) -> S] : Range(s) = S}

Take(s, n) == IF Len(s) > n THEN SubSeq(s, 1, n) ELSE s

----------------------------------------------------------------------------
(* db: values *)

NullTime == 0

\* database/sql binds a Go string as text (the empty string included) and a
\* nil interface{} as NULL; NullText is the SQL NULL of a text column.
NullText == "<NULL>"
BindString(s) == s
BindTime(t) == IF t = 0 THEN NullTime ELSE t

CoalesceText(x, y) == IF x # NullText THEN x ELSE y
CoalesceTime(x, y) == IF x # NullTime THEN x ELSE y

\* sha256(url)[:8] in hex: deterministic, and injective on the URLs of the model
generateID(url) == "sha256:" \o url

IDs == {generateID(u) : u \in URLs}

\* a db.Bookmark value with the zero value in every field not given
ZeroBookmark ==
    [id |-> "", source |-> "", url |-> "", title |-> "", summary |-> "",
     keywords |-> "", notes |-> "", raw_content |-> "", created_at |-> 0,
     updated_at |-> 0, scraped_at |-> 0, scrape_status |-> "", hidden |-> FALSE]

RowByURL(tbl, url) == {r \in tbl : r.url = url}
RowByID(tbl, id) == {r \in tbl : r.id = id}
TheRow(S) == CHOOSE r \in S : TRUE

----------------------------------------------------------------------------
(* db: Store *)

\* UpsertReturningNew, the assignments made to *b before the statements run
PrepareUpsert(b, t) ==
    [b EXCEPT !.id = IF b.id = "" THEN generateID(b.url) ELSE b.id,
              !.updated_at = t,
              !.created_at = IF b.created_at = 0 THEN t ELSE b.created_at]

\* for comparison: a DO UPDATE that also assigned created_at
ConflictUpdateAll(old, b) ==
    [old EXCEPT
        !.title = CoalesceText(BindString(b.title), old.title),
        !.summary = CoalesceText(BindString(b.summary), old.summary),
        !.keywords = CoalesceText(BindString(b.keywords), old.keywords),
        !.notes = CoalesceText(BindString(b.notes), old.notes),
        !.raw_content = CoalesceText(BindString(b.raw_content), old.raw_content),
        !.created_at = b.created_at,
        !.updated_at = b.updated_at,
        !.scraped_at = CoalesceTime(BindTime(b.scraped_at), old.scraped_at),
        !.scrape_status = CoalesceText(BindString(b.scrape_status), old.scrape_status)]

\* ON CONFLICT(url) DO UPDATE SET ...: id, source, url, created_at and hidden
\* are not assigned
ConflictUpdate(old, b) ==
    [old EXCEPT
        !.title = CoalesceText(BindString(b.title), old.title),
        !.summary = CoalesceText(BindString(b.summary), old.summary),
        !.keywords = CoalesceText(BindString(b.keywords), old.keywords),
        !.notes = CoalesceText(BindString(b.notes), old.notes),
        !.raw_content = CoalesceText(BindString(b.raw_content), old.raw_content),
        !.updated_at = b.updated_at,
        !.scraped_at = CoalesceTime(BindTime(b.scraped_at), old.scraped_at),
        !.scrape_status = CoalesceText(BindString(b.scrape_status), old.scrape_status)]

\* VALUES (?, ...): every column is given, so no column default applies
InsertRow(b) == [b EXCEPT !.scraped_at = BindTime(b.scraped_at)]

\* for comparison: an insert with neither the lookup nor the conflict clause
UpsertWithoutLookup(tbl, b0, t) ==
    LET b == PrepareUpsert(b0, t)
    IN  [rows |-> {r \in tbl : r.id # b.id} \cup {InsertRow(b)},
         isNew |-> TRUE, err |-> FALSE, b |-> b]

\* The SELECT by url decides isNew; the INSERT resolves a conflict on url by
\* the DO UPDATE and fails on a conflict on the primary key alone.
UpsertReturningNew(tbl, b0, t) ==
    LET b == PrepareUpsert(b0, t)
        existing == RowByURL(tbl, b.url)
    IN  IF existing # {}
        THEN [rows |-> (tbl \ existing) \cup {ConflictUpdate(TheRow(existing), b)},
              isNew |-> FALSE, err |-> FALSE, b |-> b]
        ELSE IF RowByID(tbl, b.id) # {}
        THEN [rows |-> tbl, isNew |-> TRUE, err |-> TRUE, b |-> b]
        ELSE [rows |-> tbl \cup {InsertRow(b)},
              isNew |-> TRUE, err |-> FALSE, b |-> b]

\* UPDATE bookmarks SET ... WHERE id = ?
UpdateRow(old, b, t) ==
    [old EXCEPT
        !.title = b.title, !.summary = b.summary, !.keywords = b.keywords,
        !.notes = b.notes, !.raw_content = b.raw_content, !.updated_at = t,
        !.scraped_at = BindTime(b.scraped_at),
        !.scrape_status = b.scrape_status, !.hidden = b.hidden]

Update(tbl, b, t) ==
    {IF r.id = b.id THEN UpdateRow(r, b, t) ELSE r : r \in tbl}

\* for comparison: a delete that leaves the embedding
KeepVec(vec, id) == vec

\* Delete: the embedding first, then the bookmark
DeleteVec(vec, id) == {e \in vec : e.id # id}
DeleteRows(tbl, id) == {r \in tbl : r.id # id}

\* Get / GetByURL: the rows found (none: sql.ErrNoRows)
Get(tbl, id) == RowByID(tbl, id)
GetByURL(tbl, url) == RowByURL(tbl, url)

\* The components of the model's vectors are 0 and plus or minus a power of
\* two.  Float32bits: the IEEE 754 single of v as four bytes, highest first
\* (sign and exponent, then an all-zero fraction).
Floats == {-2, -1, 0, 1, 2}

Float32bits(v) ==
    IF v = 0 THEN <<0, 0, 0, 0>>
    ELSE LET e == IF v \in {-1, 1} THEN 127 ELSE 128
             sgn == IF v < 0 THEN 128 ELSE 0
         IN  <<sgn + (e \div 2), (e % 2) * 128, 0, 0>>

Float32frombits(w) == CHOOSE v \in Floats : Float32bits(v) = w

\* binary.LittleEndian.PutUint32(math.Float32bits(v)): the lowest byte first
PutFloat32(v) ==
    LET w == Float32bits(v) IN <<w[4], w[3], w[2], w[1]>>

\* math.Float32frombits(binary.LittleEndian.Uint32(b[i:]))
GetFloat32(bs, i) == Float32frombits(<<bs[i + 3], bs[i + 2], bs[i + 1], bs[i]>>)

RECURSIVE float32SliceToBytes(_)
float32SliceToBytes(s) ==
    IF s = <<>> THEN <<>>
    ELSE PutFloat32(Head(s)) \o float32SliceToBytes(Tail(s))

\* nil (no components) when the length is not a multiple of 4
bytesToFloat32Slice(b) ==
    IF Len(b) % 4 # 0 THEN <<>>
    ELSE [i \in 1..(Len(b) \div 4) |-> GetFloat32(b, 4 * (i - 1) + 1)]

\* INSERT OR REPLACE INTO bookmarks_vec
UpdateEmbedding(vec, id, embedding) ==
    {e \in vec : e.id # id} \cup {[id |-> id, embedding |-> float32SliceToBytes(embedding)]}

\* GetAllWithEmbeddings: map id -> vector, as a set of pairs
GetAllWithEmbeddings(vec) ==
    {[id |-> e.id, emb |-> bytesToFloat32Slice(e.embedding)] : e \in vec}

\* for comparison: a reset of the status alone
ResetStatusOnly(r) == [r EXCEPT !.scrape_status = "pending"]

\* UPDATE ... SET scrape_status = 'pending', raw_content = '', summary = '',
\* keywords = '' WHERE id IN (ids); nothing at all for an empty list
ResetRow(r) ==
    [r EXCEPT !.scrape_status = "pending", !.raw_content = "", !.summary = "",
              !.keywords = ""]

MarkForReprocess(tbl, ids) ==
    IF Len(ids) = 0 THEN tbl
    ELSE {IF r.id \in Range(ids) THEN ResetRow(r) ELSE r : r \in tbl}

\* WHERE scrape_status = 'pending' OR scrape_status = 'failed'
IsPending(r) == r.scrape_status = "pending" \/ r.scrape_status = "failed"

\* GetPending: no ORDER BY, so any order of the matching rows; LIMIT ?
GetPending(tbl, limit) ==
    {Take(s, limit) : s \in Perms({r \in tbl : IsPending(r)})}

\* GetOrphanedBySource / getBookmarksBySource; only id, source, url and
\* title are scanned
OrphanScan(r) ==
    [ZeroBookmark EXCEPT !.id = r.id, !.source = r.source, !.url = r.url,
                         !.title = r.title]

\* for comparison: orphans taken from every source
GetOrphanedAnySource(tbl, source, currentURLs) ==
    {OrphanScan(r) : r \in {x \in tbl : x.url \notin Range(currentURLs)}}

GetOrphanedBySource(tbl, source, currentURLs) ==
    IF Len(currentURLs) = 0
    THEN {OrphanScan(r) : r \in {x \in tbl : x.source = source}}
    ELSE {OrphanScan(r) : r \in {x \in tbl : x.source = source
                                            /\ x.url \notin Range(currentURLs)}}

\* List: raw_content and scraped_at are not selected and stay zero in the
\* returned value
ListScan(r) == [r EXCEPT !.raw_content = "", !.scraped_at = 0]

ListKey(r) ==
    IF r.source \in {"raindrop", "github", "x"} THEN r.created_at ELSE r.updated_at

ListOrdered(s) == \A i, j \in DOMAIN s : i < j => ListKey(s[i]) >= ListKey(s[j])

\* WHERE hidden = 0 [AND source IN (...)] ORDER BY key DESC LIMIT ?
List(tbl, sources, limit) ==
    LET sel == {r \in tbl : ~r.hidden /\ (Len(sources) = 0 \/ r.source \in Range(sources))}
    IN  {Take([i \in DOMAIN s |-> ListScan(s[i])], limit) :
            s \in {p \in Perms(sel) : ListOrdered(p)}}

----------------------------------------------------------------------------
(* db: search *)

RRFK == 60
FTSLimit == 50
LimitCLI == 20
LimitTUI == 50

\* Scores are kept as exact fractions.  For ranks up to FTSLimit two fused
\* scores are equal as float64 values exactly when they are equal fractions.
Frac(n, d) == [num |-> n, den |-> d]
FracAdd(a, b) == Frac(a.num * b.den + b.num * a.den, a.den * b.den)
FracGT(a, b) == a.num * b.den > b.num * a.den
FracEq(a, b) == a.num * b.den = b.num * a.den

\* The texts of the model are single tokens: a query matches a row when it
\* is one of the five indexed columns.  A query that is no FTS5 expression
\* makes the statement fail.
Queries == {"", "repo", "tweet", "nomatch", "\"unbalanced"}
Malformed(query) == query = "\"unbalanced"
Match(r, query) == query \in {r.title, r.summary, r.keywords, r.notes, r.url}

\* rank i for the i-th row
Ranked(ids) == [i \in DOMAIN ids |-> [ID |-> ids[i], Rank |-> i]]

\* ftsSearch: the matching rows that are not hidden, in bm25 order (any
\* order here), the first limit of them
ftsSearch(tbl, query, limit) ==
    IF Malformed(query) THEN {[err |-> TRUE, results |-> <<>>]}
    ELSE {[err |-> FALSE, results |-> Ranked(Take(p, limit))] :
             p \in Perms({r.id : r \in {x \in tbl : Match(x, query) /\ ~x.hidden}})}

\* vectorSearch returns nil, nil
vectorSearch(query, limit) == <<>>

\* cosineSimilarity as the pair (dot product, product of the squared norms):
\* the value is dot / sqrt(norms), and 0 for unequal lengths or a zero norm
RECURSIVE Dot(_, _)
Dot(a, b) == IF a = <<>> THEN 0 ELSE Head(a) * Head(b) + Dot(Tail(a), Tail(b))

cosineSimilarity(a, b) ==
    IF Len(a) # Len(b) THEN [dot |-> 0, norms |-> 1]
    ELSE IF Dot(a, a) = 0 \/ Dot(b, b) = 0 THEN [dot |-> 0, norms |-> 1]
    ELSE [dot |-> Dot(a, b), norms |-> Dot(a, a) * Dot(b, b)]

\* x > y for two similarities: compare the signed squares
SignedSquare(x) == IF x.dot < 0 THEN 0 - x.dot * x.dot ELSE x.dot * x.dot
CosGT(x, y) == SignedSquare(x) * y.norms > SignedSquare(y) * x.norms

\* SearchWithEmbedding: every stored vector with at least one component,
\* sorted by score descending (equal scores in any order), ranked, cut
SearchWithEmbedding(vec, queryEmbedding, limit) ==
    LET scored == {[ID |-> e.id, Score |-> cosineSimilarity(queryEmbedding, e.emb)] :
                      e \in {x \in GetAllWithEmbeddings(vec) : Len(x.emb) # 0}}
        sorted == {p \in Perms(scored) :
                      \A i, j \in DOMAIN p : i < j => ~CosGT(p[j].Score, p[i].Score)}
    IN  {Take([i \in DOMAIN p |-> [ID |-> p[i].ID, Rank |-> i]], limit) : p \in sorted}

\* scores[r.ID] += 1.0 / (k + r.Rank), over one list
RECURSIVE AddScores(_, _)
AddScores(scores, results) ==
    IF results = <<>> THEN scores
    ELSE LET r == Head(results)
             old == IF r.ID \in DOMAIN scores THEN scores[r.ID] ELSE Frac(0, 1)
             new == FracAdd(old, Frac(1, RRFK + r.Rank))
         IN  AddScores([id \in DOMAIN scores \cup {r.ID} |->
                           IF id = r.ID THEN new ELSE scores[id]], Tail(results))

\* the reverse of the sort in hybridRank, for comparison
hybridRankAscending(ftsResults, vecResults) ==
    LET scores == AddScores(AddScores(<<>>, ftsResults), vecResults)
        results == {[ID |-> id, Score |-> scores[id]] : id \in DOMAIN scores}
    IN  {p \in Perms(results) :
            \A i, j \in DOMAIN p : i < j => ~FracGT(p[i].Score, p[j].Score)}

\* hybridRank: the map of scores in any order, sorted by score descending;
\* sort.Slice leaves equal scores in any order
hybridRank(ftsResults, vecResults) ==
    LET scores == AddScores(AddScores(<<>>, ftsResults), vecResults)
        results == {[ID |-> id, Score |-> scores[id]] : id \in DOMAIN scores}
    IN  {p \in Perms(results) :
            \A i, j \in DOMAIN p : i < j => ~FracGT(p[j].Score, p[i].Score)}

\* s.Get for each result; an id that is not found is skipped
RECURSIVE GetEach(_, _)
GetEach(tbl, combined) ==
    IF combined = <<>> THEN <<>>
    ELSE LET found == Get(tbl, Head(combined).ID)
         IN  (IF found = {} THEN <<>> ELSE <<TheRow(found)>>) \o GetEach(tbl, Tail(combined))

\* for comparison: a Search that gives up when the lexical query fails
SearchHardFail(tbl, query, limit) ==
    IF query = "" THEN List(tbl, <<>>, limit)
    ELSE UNION {
           IF f.err THEN {<<>>}
           ELSE UNION {IF Len(combined) = 0 THEN List(tbl, <<>>, limit)
                       ELSE {GetEach(tbl, Take(combined, limit))} :
                          combined \in hybridRank(f.results, vectorSearch(query, FTSLimit))} :
           f \in ftsSearch(tbl, query, FTSLimit)}

\* Search: the possible results
Search(tbl, query, limit) ==
    IF query = "" THEN List(tbl, <<>>, limit)
    ELSE UNION {
           LET ftsResults == IF f.err THEN <<>> ELSE f.results
               vecResults == vectorSearch(query, FTSLimit)
           IN  UNION {IF Len(combined) = 0 THEN List(tbl, <<>>, limit)
                      ELSE {GetEach(tbl, Take(combined, limit))} :
                         combined \in hybridRank(ftsResults, vecResults)} :
           f \in ftsSearch(tbl, query, FTSLimit)}

\* HybridSearchWithEmbedding: the possible results
HybridSearchWithEmbedding(tbl, vec, query, queryEmbedding, limit) ==
    IF query = "" THEN List(tbl, <<>>, limit)
    ELSE UNION {
           UNION {{GetEach(tbl, Take(combined, limit)) :
                      combined \in hybridRank(IF f.err THEN <<>> ELSE f.results, vecResults)} :
                  vecResults \in SearchWithEmbedding(vec, queryEmbedding, FTSLimit)} :
           f \in ftsSearch(tbl, query, FTSLimit)}

----------------------------------------------------------------------------
(* sources: what the adapters hand to the indexer *)

Sources == <<"github", "x", "raindrop">>

\* github.go: a star; the repository description may be empty
GitHubItem(u, c, desc) ==
    [ZeroBookmark EXCEPT !.source = "github", !.url = u, !.title = "repo",
                         !.summary = desc, !.created_at = c,
                         !.scrape_status = "pending"]

\* raindrop.go: excerpt, tags and note may each be empty
RaindropItem(u, c, rich) ==
    [ZeroBookmark EXCEPT !.source = "raindrop", !.url = u, !.title = "page",
                         !.summary = IF rich THEN "excerpt" ELSE "",
                         !.keywords = IF rich THEN "tag1,tag2" ELSE "",
                         !.notes = IF rich THEN "note" ELSE "",
                         !.created_at = c, !.scrape_status = "pending"]

\* the X adapter: the tweet text is the content, so the item arrives as success
TwitterItem(u, c) ==
    [ZeroBookmark EXCEPT !.source = "x", !.url = u, !.title = "tweet",
                         !.raw_content = "tweet text", !.created_at = c,
                         !.scrape_status = "success"]

\* The creation time of an item is the time the remote service reports; the
\* adapters copy it without comparing it with the local clock.
SourceItems(src) ==
    IF src = "github" THEN {GitHubItem(u, c, d) : u \in RepoURLs, c \in Times, d \in {"", "desc"}}
    ELSE IF src = "raindrop" THEN {RaindropItem(u, 1, r) : u \in URLs, r \in BOOLEAN}
    ELSE {TwitterItem(u, 1) : u \in TweetURLs}

\* Source.Fetch: the items of one listing, in the adapter's order
SourceFetch(src) == SeqsUpTo(SourceItems(src), MaxItems)

----------------------------------------------------------------------------
(* indexer: providers *)

\* Scraper.Scrape, Summarizer.Summarize and Embedder.Embed are external calls;
\* each fails or returns one of these values
ScrapedContent == "content"
SummaryResults == {[Summary |-> "generated summary", Keywords |-> "gen,kw"]}
EmbedResults == {<<1, 0, -1>>}

----------------------------------------------------------------------------
(* The record of the last store calls *)

\* op: upsert, update, delete, embed or mark; absent: the row the call is
\* about (by url for upsert, by id otherwise) did not exist before the call
NoCall ==
    [op |-> "none", b |-> ZeroBookmark, ids |-> <<>>, id |-> "", isNew |-> FALSE,
     err |-> FALSE, absent |-> FALSE]

NoPrev == [op |-> "none", key |-> "", isNew |-> FALSE, absent |-> FALSE, stored |-> {}]

Call(op, b, ids, id, isNew, err) ==
    [op |-> op, b |-> b, ids |-> ids, id |-> id, isNew |-> isNew, err |-> err,
     absent |-> IF op = "upsert" THEN RowByURL(bookmarks, b.url) = {}
                ELSE IF op = "update" THEN RowByID(bookmarks, b.id) = {}
                ELSE RowByID(bookmarks, id) = {}]

\* what is kept of a call once another call follows it; stored: the ids of
\* the rows with the upserted url right after the call
Summary(c, tbl) ==
    IF c.op = "upsert"
    THEN [op |-> "upsert", key |-> c.b.url, isNew |-> c.isNew, absent |-> c.absent,
          stored |-> {r.id : r \in RowByURL(tbl, c.b.url)}]
    ELSE [NoPrev EXCEPT !.op = c.op, !.key = c.id, !.absent = c.absent]

Record(c) ==
    /\ last' = c
    /\ prev' = Summary(last, bookmarks)

----------------------------------------------------------------------------
(* indexer.Fetch *)

IdleFetch ==
    [pc |-> "idle", force |-> FALSE, reprocess |-> FALSE, background |-> FALSE,
     srcs |-> <<>>,
     src |-> "", items |-> <<>>, i |-> 1, idsToReprocess |-> <<>>,
     newItems |-> 0, totalNewItems |-> 0, orphans |-> <<>>, pending |-> <<>>,
     k |-> 1, b |-> ZeroBookmark, result |-> ""]

\* The log of a cycle: the sources that were enabled and available, the
\* sources whose Fetch returned an error, and the provider calls made for the
\* pending item handled last with those of them that returned an error, and
\* the ids the user deleted since the cycle last read a listing or the
\* pending rows.  A log that is switched off stays empty.  With track set,
\* listed holds the URLs the sources have returned in the cycle and unread
\* the URLs on the pages the source handled last did not read.
NoLog(on) ==
    [on |-> on, avail |-> {}, failed |-> {}, calls |-> {}, errors |-> {}, deleted |-> {},
     track |-> FALSE, listed |-> {}, unread |-> {}]
Logged(l) == log' = IF log.on THEN l ELSE log

\* for comparison: a collection that does not ask Available()
CollectAll(avail) == Sources

\* the sources that are configured on, pass the filter and are available,
\* in the order Fetch collects them
Collect(avail) == SelectSeq(Sources, LAMBDA s : s \in avail)

\* the end of the body of the per-source loop
EndOfSource(f) ==
    LET g == [f EXCEPT !.totalNewItems = f.totalNewItems + f.newItems]
    IN  IF Len(g.srcs) > 0 THEN [g EXCEPT !.pc = "source"]
        ELSE [g EXCEPT !.pc = "pending"]

\* for comparison: an orphan cleanup on every cycle
AfterMarkAlways(f) == [f EXCEPT !.pc = "orphans"]

AfterMark(f) == IF f.force THEN [f EXCEPT !.pc = "orphans"] ELSE EndOfSource(f)

AfterUpserts(f) ==
    IF f.reprocess /\ Len(f.idsToReprocess) > 0 THEN [f EXCEPT !.pc = "mark"]
    ELSE AfterMark(f)

\* for comparison: a failed source that ends the cycle
AbortCycle(f) == [f EXCEPT !.pc = "idle", !.result = "source failed"]

\* continue: on to the next source, or to the pipeline after the last one
SkipSource(f) == IF Len(f.srcs) > 0 THEN f ELSE [f EXCEPT !.pc = "pending"]

\* for comparison: a pipeline that runs on every cycle
shouldProcessAlways(f) == TRUE

shouldProcess(f) == f.totalNewItems > 0 \/ f.reprocess

PendingLimit == 100

\* outcomes of the three provider calls
ScrapeOutcomes == {[ok |-> FALSE, content |-> ""], [ok |-> TRUE, content |-> ScrapedContent]}
SummarizeOutcomes ==
    {[ok |-> FALSE, Summary |-> "", Keywords |-> ""]}
    \cup {[ok |-> TRUE, Summary |-> r.Summary, Keywords |-> r.Keywords] : r \in SummaryResults}
\* a nil embedder (no API key) makes no call and no embedding; a call fails
\* or returns a vector
EmbedOutcomes ==
    {[ok |-> FALSE, called |-> FALSE, v |-> <<>>], [ok |-> FALSE, called |-> TRUE, v |-> <<>>]}
    \cup {[ok |-> TRUE, called |-> TRUE, v |-> v] : v \in EmbedResults}

\* Fetch, pending loop: the content and summarize steps on the local copy b,
\* the content fetch having succeeded or being skipped
Enrich(b, sc, su) ==
    LET b1 == IF b.raw_content = "" THEN [b EXCEPT !.raw_content = sc.content] ELSE b
    IN  IF b1.summary = "" /\ su.ok
        THEN [b1 EXCEPT !.summary = su.Summary,
                        !.keywords = IF b1.keywords = "" THEN su.Keywords ELSE b1.keywords]
        ELSE b1

\* the provider calls the body of the pending loop makes for b
ProviderCalls(b, sc, em) ==
    IF b.raw_content = "" /\ ~sc.ok THEN {"scrape"}
    ELSE (IF b.raw_content = "" THEN {"scrape"} ELSE {})
         \cup (IF b.summary = "" THEN {"summarize"} ELSE {})
         \cup (IF em.called THEN {"embed"} ELSE {})

\* those of the calls that return an error
ProviderErrors(b, sc, su, em) ==
    (IF b.raw_content = "" /\ ~sc.ok THEN {"scrape"} ELSE {})
    \cup (IF "summarize" \in ProviderCalls(b, sc, em) /\ ~su.ok THEN {"summarize"} ELSE {})
    \cup (IF "embed" \in ProviderCalls(b, sc, em) /\ ~em.ok THEN {"embed"} ELSE {})

\* for comparison: a persisted copy whose status is left as it was read
ScrapedOnly(b, t) == [b EXCEPT !.scraped_at = t]

\* for comparison: success only for an item that got a summary
SucceededWithSummary(b, t) ==
    IF b.summary = "" THEN [b EXCEPT !.scrape_status = "failed"]
    ELSE [b EXCEPT !.scrape_status = "success", !.scraped_at = t]

\* the copy persisted at the end of the pending loop's body
Succeeded(b, t) == [b EXCEPT !.scrape_status = "success", !.scraped_at = t]

\* for comparison: a failed content fetch that leaves the status as it was
FailedUnmarked(b) == b

Failed(b) == [b EXCEPT !.scrape_status = "failed"]

NextPending(f) ==
    IF f.k < Len(f.pending) THEN [f EXCEPT !.pc = "process", !.k = f.k + 1, !.b = ZeroBookmark]
    ELSE [f EXCEPT !.pc = "finish", !.b = ZeroBookmark]

\* initStore: a refresh is due when last_refresh_at is not set or lies 24
\* hours back (one step of the model's clock; 0 stands for both)
RefreshAge == 1
needsRefresh == now - metadata["last_refresh_at"] >= RefreshAge

\* A store call fails when the environment makes it (disk, I/O, a locked
\* file): the failed statement writes nothing.
Faulty == IF faults > 0 THEN {FALSE, TRUE} ELSE {FALSE}
Spend(fail) == faults' = IF fail THEN faults - 1 ELSE faults

\* UpsertReturningNew when its INSERT fails
UpsertFailed(tbl, b0, t) ==
    [rows |-> tbl, isNew |-> RowByURL(tbl, b0.url) = {}, err |-> TRUE, b |-> PrepareUpsert(b0, t)]

\* the watermark of a source in table metadata
WatermarkKey(src) == src \o "_last_sync_ts"

\* The loop of an adapter over the listing, in the order the service delivers
\* it: newestTime follows the items seen, and the first item that is not
\* after lastSyncTime ends the loop.
RECURSIVE Scan(_, _, _, _)
Scan(listing, lastSyncTime, newestTime, all) ==
    IF listing = <<>> THEN [items |-> all, newestTime |-> newestTime]
    ELSE LET t == Head(listing).created_at
             n == IF newestTime = 0 \/ t > newestTime THEN t ELSE newestTime
         IN  IF lastSyncTime # 0 /\ ~(t > lastSyncTime)
             THEN [items |-> all, newestTime |-> n]
             ELSE Scan(Tail(listing), lastSyncTime, n, Append(all, Head(listing)))

\* Source.Fetch: the items returned and the newest time seen
AdapterFetch(listing, lastSyncTime) == Scan(listing, lastSyncTime, 0, <<>>)

\* the page size of the GitHub and Raindrop adapters (100 and 50), scaled
PerPage == 1

\* What the service holds on the pages the adapter did not read.  GitHub and
\* Raindrop end the paging without an error when a page after the first
\* fails, and return the full pages read so far; X returns the error.
Unread(src, listing) ==
    IF log.track /\ src \in {"github", "raindrop"}
       /\ Len(listing) >= PerPage /\ Len(listing) % PerPage = 0
    THEN SUBSET ({x.url : x \in SourceItems(src)} \ {x.url : x \in Range(listing)})
    ELSE {{}}

\* background: the call made by the TUI's initStore (an incremental fetch
\* without reprocess); otherwise the fetch command
FetchStart(force, reprocess, avail, background) ==
    /\ fetch.pc = "idle"
    /\ manual.pc = "idle"
    /\ resum.pc = "idle"
    /\ background => ~force /\ ~reprocess /\ needsRefresh
    /\ cycles < MaxCycles
    /\ cycles' = cycles + 1
    /\ fetch' = IF Len(Collect(avail)) = 0
                THEN [IdleFetch EXCEPT !.result = "no sources available"]
                ELSE [IdleFetch EXCEPT !.pc = "source", !.force = force,
                                       !.reprocess = reprocess, !.background = background,
                                       !.srcs = Collect(avail)]
    /\ Logged([NoLog(TRUE) EXCEPT !.avail = avail, !.track = log.track])
    /\ UNCHANGED <<bookmarks, bookmarks_vec, now, tui, manual, metadata, last, prev, commands, sr, resum, faults, sy>>

\* src.Fetch(incremental): an error skips the source.  The adapter reads its
\* watermark (incremental only; a failed read counts as no watermark) and
\* writes the newest time it saw (a failed write is dropped).
FetchSource ==
    /\ fetch.pc = "source"
    /\ LET src == Head(fetch.srcs)
           f == [fetch EXCEPT !.srcs = Tail(fetch.srcs)]
           key == WatermarkKey(src)
       IN  \/ /\ fetch' = SkipSource(f)
              /\ Logged([log EXCEPT !.failed = log.failed \cup {src}])
              /\ UNCHANGED <<metadata, faults>>
           \/ \E listing \in SourceFetch(src), getFails \in Faulty, setFails \in Faulty :
                LET lastSyncTime == IF fetch.force \/ getFails THEN 0 ELSE metadata[key]
                    r == AdapterFetch(listing, lastSyncTime)
                    g == [f EXCEPT !.src = src, !.items = r.items, !.i = 1,
                                   !.idsToReprocess = <<>>, !.newItems = 0]
                IN  /\ getFails => ~fetch.force /\ ~setFails
                    /\ setFails => r.newestTime # 0
                    /\ Spend(getFails \/ setFails)
                    /\ metadata' = IF r.newestTime # 0 /\ ~setFails
                                   THEN [metadata EXCEPT ![key] = r.newestTime]
                                   ELSE metadata
                    /\ fetch' = IF Len(r.items) > 0 THEN [g EXCEPT !.pc = "upsert"]
                                ELSE AfterUpserts(g)
                    /\ \E unread \in Unread(src, listing) :
                          Logged([log EXCEPT !.deleted = {},
                                             !.listed = IF log.track
                                                        THEN log.listed \cup {x.url : x \in Range(r.items)}
                                                        ELSE {},
                                             !.unread = unread])
    /\ UNCHANGED <<bookmarks, bookmarks_vec, now, tui, manual, last, prev, commands, cycles, sr, resum, sy>>

\* a failed upsert is reported and the loop goes on
FetchUpsert ==
    /\ fetch.pc = "upsert"
    /\ \E fail \in Faulty :
         LET r == IF fail THEN UpsertFailed(bookmarks, fetch.items[fetch.i], now)
                  ELSE UpsertReturningNew(bookmarks, fetch.items[fetch.i], now)
             f == IF r.err THEN fetch
                  ELSE IF r.isNew THEN [fetch EXCEPT !.newItems = fetch.newItems + 1]
                  ELSE IF fetch.reprocess
                  THEN [fetch EXCEPT !.idsToReprocess = Append(fetch.idsToReprocess, r.b.id)]
                  ELSE fetch
         IN  /\ Spend(fail)
             /\ bookmarks' = r.rows
             /\ Record(Call("upsert", r.b, <<>>, "", r.isNew, r.err))
             /\ fetch' = IF fetch.i < Len(fetch.items) THEN [f EXCEPT !.i = fetch.i + 1]
                         ELSE AfterUpserts(f)
    /\ UNCHANGED <<bookmarks_vec, now, tui, manual, metadata, commands, cycles, sr, resum, sy, log>>

\* a failed MarkForReprocess is a warning
FetchMark ==
    /\ fetch.pc = "mark"
    /\ \E fail \in Faulty :
         /\ Spend(fail)
         /\ bookmarks' = IF fail THEN bookmarks
                         ELSE MarkForReprocess(bookmarks, fetch.idsToReprocess)
         /\ Record(Call("mark", ZeroBookmark, fetch.idsToReprocess, "", FALSE, fail))
    /\ fetch' = AfterMark(fetch)
    /\ UNCHANGED <<bookmarks_vec, now, tui, manual, metadata, commands, cycles, sr, resum, sy, log>>

\* on a forced fetch: the orphans of the source, given the URLs it returned;
\* a failed GetOrphanedBySource is a warning and nothing is deleted
FetchOrphans ==
    /\ fetch.pc = "orphans"
    /\ LET urls == [j \in DOMAIN fetch.items |-> fetch.items[j].url]
       IN  \E fail \in Faulty :
              /\ Spend(fail)
              /\ IF fail THEN fetch' = EndOfSource(fetch)
                 ELSE \E o \in Perms(GetOrphanedBySource(bookmarks, fetch.src, urls)) :
                         fetch' = IF Len(o) > 0 THEN [fetch EXCEPT !.pc = "delete", !.orphans = o]
                                  ELSE EndOfSource(fetch)
    /\ UNCHANGED <<bookmarks, bookmarks_vec, now, tui, manual, metadata, last, prev, commands, cycles, sr, resum, sy, log>>

\* store.Delete of one orphan: two statements, either of which may fail; the
\* error is printed and the loop goes on
FetchDelete ==
    /\ fetch.pc = "delete"
    /\ LET id == Head(fetch.orphans).id
           f == [fetch EXCEPT !.orphans = Tail(fetch.orphans)]
       IN  \E failVec \in Faulty, failRow \in Faulty :
             /\ ~(failVec /\ failRow)
             /\ Spend(failVec \/ failRow)
             /\ bookmarks_vec' = IF failVec THEN bookmarks_vec ELSE DeleteVec(bookmarks_vec, id)
             /\ bookmarks' = IF failVec \/ failRow THEN bookmarks ELSE DeleteRows(bookmarks, id)
             /\ Record(Call("delete", ZeroBookmark, <<>>, id, FALSE, failVec \/ failRow))
             /\ fetch' = IF Len(f.orphans) > 0 THEN f ELSE EndOfSource(f)
    /\ UNCHANGED <<now, tui, manual, metadata, commands, cycles, sr, resum, sy, log>>

\* shouldProcess, then the snapshot of the pending rows; a failed GetPending
\* ends Fetch with an error
FetchPending ==
    /\ fetch.pc = "pending"
    /\ IF shouldProcess(fetch)
       THEN \E fail \in Faulty :
              /\ Spend(fail)
              /\ IF fail
                 THEN fetch' = [IdleFetch EXCEPT !.result = "failed to get pending items"]
                 ELSE \E p \in GetPending(bookmarks, PendingLimit) :
                         fetch' = IF Len(p) > 0
                                  THEN [fetch EXCEPT !.pc = "process", !.pending = p, !.k = 1]
                                  ELSE [fetch EXCEPT !.pc = "finish"]
              /\ Logged([log EXCEPT !.deleted = {}])
       ELSE fetch' = [fetch EXCEPT !.pc = "finish"] /\ UNCHANGED <<faults, log>>
    /\ UNCHANGED <<bookmarks, bookmarks_vec, now, tui, manual, metadata, last, prev, commands, cycles, sr, resum, sy>>

\* one pending item up to its first store call: Update on a failed content
\* fetch, UpdateEmbedding when an embedding was made, else the final Update.
\* The results of these store calls are not looked at.
FetchProcess ==
    /\ fetch.pc = "process"
    /\ LET b == fetch.pending[fetch.k]
       IN  \E sc \in ScrapeOutcomes, su \in SummarizeOutcomes, em \in EmbedOutcomes,
              fail \in Faulty :
             /\ Spend(fail)
             /\ Logged([log EXCEPT !.calls = ProviderCalls(b, sc, em),
                                   !.errors = ProviderErrors(b, sc, su, em)])
             /\ IF b.raw_content = "" /\ ~sc.ok
                THEN /\ bookmarks' = IF fail THEN bookmarks ELSE Update(bookmarks, Failed(b), now)
                     /\ Record(Call("update", Failed(b), <<>>, "", FALSE, fail))
                     /\ fetch' = NextPending(fetch)
                     /\ UNCHANGED bookmarks_vec
                ELSE IF em.ok
                THEN /\ bookmarks_vec' = IF fail THEN bookmarks_vec
                                         ELSE UpdateEmbedding(bookmarks_vec, b.id, em.v)
                     /\ Record(Call("embed", ZeroBookmark, <<>>, b.id, FALSE, fail))
                     /\ fetch' = [fetch EXCEPT !.pc = "persist", !.b = Enrich(b, sc, su)]
                     /\ UNCHANGED bookmarks
                ELSE /\ bookmarks' = IF fail THEN bookmarks
                                     ELSE Update(bookmarks, Succeeded(Enrich(b, sc, su), now), now)
                     /\ Record(Call("update", Succeeded(Enrich(b, sc, su), now), <<>>, "", FALSE, fail))
                     /\ fetch' = NextPending(fetch)
                     /\ UNCHANGED bookmarks_vec
    /\ UNCHANGED <<now, tui, manual, metadata, commands, cycles, sr, resum, sy>>

FetchPersist ==
    /\ fetch.pc = "persist"
    /\ \E fail \in Faulty :
         /\ Spend(fail)
         /\ bookmarks' = IF fail THEN bookmarks ELSE Update(bookmarks, Succeeded(fetch.b, now), now)
         /\ Record(Call("update", Succeeded(fetch.b, now), <<>>, "", FALSE, fail))
    /\ fetch' = NextPending(fetch)
    /\ UNCHANGED <<bookmarks_vec, now, tui, manual, metadata, commands, cycles, sr, resum, sy, log>>

\* store.SetMetadata(lastRefreshKey, now), its result not looked at; Fetch
\* returns nil
FetchFinish ==
    /\ fetch.pc = "finish"
    /\ \E fail \in Faulty :
         /\ Spend(fail)
         /\ metadata' = IF fail THEN metadata ELSE [metadata EXCEPT !["last_refresh_at"] = now]
    /\ fetch' = [IdleFetch EXCEPT !.result = "ok"]
    /\ UNCHANGED <<bookmarks, bookmarks_vec, now, tui, manual, last, prev, commands, cycles, sr, resum, sy, log>>

\* The clock is coarse: it is seen to move between commands, while the
\* pipeline waits for the network, and between the upserts of a source and
\* its MarkForReprocess.
Tick ==
    /\ now < MaxTime
    /\ fetch.pc \in {"idle", "pending", "mark"}
    /\ manual.pc \in {"idle", "enrich"}
    /\ resum.pc \in {"idle", "process"}
    /\ now' = now + 1
    /\ UNCHANGED <<bookmarks, bookmarks_vec, fetch, tui, manual, metadata, last, prev, commands, cycles, sr, resum, faults, sy, log>>

----------------------------------------------------------------------------
(* indexer.AddManualURL *)

IdleManual == [pc |-> "idle", b |-> ZeroBookmark, result |-> ""]

ManualBookmark(url) ==
    [ZeroBookmark EXCEPT !.source = "manual", !.url = url, !.title = url,
                         !.scrape_status = "pending"]

\* the first line of the content, at most 100 runes of it
FirstLine(content) == IF content = ScrapedContent THEN "Example" ELSE content

\* AddManualURL after a successful content fetch: title, summary and keywords
ManualEnriched(b, sc, su) ==
    LET b1 == [b EXCEPT !.raw_content = sc.content,
                        !.title = IF sc.content # "" THEN FirstLine(sc.content) ELSE b.title]
    IN  IF su.ok THEN [b1 EXCEPT !.summary = su.Summary, !.keywords = su.Keywords]
        ELSE b1

ManualReturn(result) == [IdleManual EXCEPT !.result = result]

\* GetByURL: "URL already indexed"
ManualStart(url) ==
    /\ manual.pc = "idle"
    /\ fetch.pc = "idle"
    /\ resum.pc = "idle"
    /\ commands < MaxCommands
    /\ commands' = commands + 1
    /\ manual' = IF GetByURL(bookmarks, url) # {}
                 THEN ManualReturn("URL already indexed")
                 ELSE [manual EXCEPT !.pc = "upsert", !.b = ManualBookmark(url), !.result = ""]
    /\ UNCHANGED <<bookmarks, bookmarks_vec, now, fetch, tui, metadata, last, prev, cycles, sr, resum, faults, sy, log>>

ManualUpsert ==
    /\ manual.pc = "upsert"
    /\ LET r == UpsertReturningNew(bookmarks, manual.b, now)
       IN  /\ bookmarks' = r.rows
           /\ Record(Call("upsert", r.b, <<>>, "", r.isNew, r.err))
           /\ manual' = IF r.err THEN ManualReturn("error")
                        ELSE [manual EXCEPT !.pc = "enrich", !.b = r.b]
    /\ UNCHANGED <<bookmarks_vec, now, fetch, tui, metadata, commands, cycles, sr, resum, faults, sy, log>>

\* scrape, summarize and embed, up to the first store call after them
ManualEnrich ==
    /\ manual.pc = "enrich"
    /\ \E sc \in ScrapeOutcomes, su \in SummarizeOutcomes, em \in EmbedOutcomes :
         /\ Logged([log EXCEPT !.calls = ProviderCalls(manual.b, sc, em),
                               !.errors = ProviderErrors(manual.b, sc, su, em)])
         /\ IF ~sc.ok
            THEN /\ manual' = ManualReturn("ok")
                 /\ UNCHANGED <<bookmarks, bookmarks_vec, last, prev>>
            ELSE IF em.ok
            THEN /\ bookmarks_vec' = UpdateEmbedding(bookmarks_vec, manual.b.id, em.v)
                 /\ Record(Call("embed", ZeroBookmark, <<>>, manual.b.id, FALSE, FALSE))
                 /\ manual' = [manual EXCEPT !.pc = "persist", !.b = ManualEnriched(manual.b, sc, su)]
                 /\ UNCHANGED bookmarks
            ELSE /\ bookmarks' = Update(bookmarks, Succeeded(ManualEnriched(manual.b, sc, su), now), now)
                 /\ Record(Call("update", Succeeded(ManualEnriched(manual.b, sc, su), now), <<>>, "", FALSE, FALSE))
                 /\ manual' = ManualReturn("ok")
                 /\ UNCHANGED bookmarks_vec
    /\ UNCHANGED <<now, fetch, tui, metadata, commands, cycles, sr, resum, faults, sy>>

ManualPersist ==
    /\ manual.pc = "persist"
    /\ bookmarks' = Update(bookmarks, Succeeded(manual.b, now), now)
    /\ Record(Call("update", Succeeded(manual.b, now), <<>>, "", FALSE, FALSE))
    /\ manual' = ManualReturn("ok")
    /\ UNCHANGED <<bookmarks_vec, now, fetch, tui, metadata, commands, cycles, sr, resum, faults, sy, log>>

----------------------------------------------------------------------------
(* cmd: Resummarize *)

ResumLimit == 10

IdleResum == [pc |-> "idle", bookmarks |-> <<>>, i |-> 1, b |-> ZeroBookmark]

\* getBookmarksNeedingSummary: scraped_at is not selected
NeedsSummary(r) == r.raw_content # "" /\ r.summary = "" /\ ~r.hidden

ResumScan(r) == [r EXCEPT !.scraped_at = 0]

ResumOrdered(s) == \A i, j \in DOMAIN s : i < j => s[i].updated_at >= s[j].updated_at

getBookmarksNeedingSummary(tbl, limit) ==
    {Take(s, limit) : s \in {p \in Perms({ResumScan(r) : r \in {x \in tbl : NeedsSummary(x)}}) :
                               ResumOrdered(p)}}

NextResum(f) ==
    IF f.i < Len(f.bookmarks) THEN [f EXCEPT !.pc = "process", !.i = f.i + 1, !.b = ZeroBookmark]
    ELSE IdleResum

ResumStart ==
    /\ resum.pc = "idle"
    /\ fetch.pc = "idle"
    /\ manual.pc = "idle"
    /\ commands < MaxCommands
    /\ commands' = commands + 1
    /\ \E bs \in getBookmarksNeedingSummary(bookmarks, ResumLimit) :
         resum' = IF Len(bs) = 0 THEN IdleResum
                  ELSE [IdleResum EXCEPT !.pc = "process", !.bookmarks = bs]
    /\ UNCHANGED <<bookmarks, bookmarks_vec, now, fetch, tui, manual, metadata, last, prev, cycles, sr, faults, sy, log>>

\* one bookmark up to its first store call; a failed or empty summary skips it
ResumProcess ==
    /\ resum.pc = "process"
    /\ LET b == resum.bookmarks[resum.i]
       IN  \E su \in SummarizeOutcomes, em \in EmbedOutcomes :
             LET b1 == [b EXCEPT !.summary = su.Summary, !.keywords = su.Keywords]
             IN  IF ~su.ok \/ su.Summary = ""
                 THEN /\ resum' = NextResum(resum)
                      /\ UNCHANGED <<bookmarks, bookmarks_vec, last, prev>>
                 ELSE IF em.ok
                 THEN /\ bookmarks_vec' = UpdateEmbedding(bookmarks_vec, b.id, em.v)
                      /\ Record(Call("embed", ZeroBookmark, <<>>, b.id, FALSE, FALSE))
                      /\ resum' = [resum EXCEPT !.pc = "persist", !.b = b1]
                      /\ UNCHANGED bookmarks
                 ELSE /\ bookmarks' = Update(bookmarks, b1, now)
                      /\ Record(Call("update", b1, <<>>, "", FALSE, FALSE))
                      /\ resum' = NextResum(resum)
                      /\ UNCHANGED bookmarks_vec
    /\ UNCHANGED <<now, fetch, tui, manual, metadata, commands, cycles, sr, faults, sy, log>>

ResumPersist ==
    /\ resum.pc = "persist"
    /\ bookmarks' = Update(bookmarks, resum.b, now)
    /\ Record(Call("update", resum.b, <<>>, "", FALSE, FALSE))
    /\ resum' = NextResum(resum)
    /\ UNCHANGED <<bookmarks_vec, now, fetch, tui, manual, metadata, commands, cycles, sr, faults, sy, log>>

----------------------------------------------------------------------------
(* tui: the edit modal and the delete command *)

\* mode: list, editing (the edit modal is open on editBookmark) or deleting
\* (the confirmation is open on deleteBookmark)
IdleTUI == [mode |-> "list", editBookmark |-> ZeroBookmark, deleteBookmark |-> ZeroBookmark]

\* One process writes at a time; inside the TUI process the key handlers run
\* while the background refresh started by initStore is still at work.  A
\* modal may stay open while another process runs.
TUIMayRun ==
    manual.pc = "idle" /\ resum.pc = "idle" /\ (fetch.pc = "idle" \/ fetch.background)

\* what the user may leave in the four fields of the modal: what they
\* showed, or new values
EditInputs(bm) ==
    {bm,
     [bm EXCEPT !.title = "my title", !.summary = "my summary", !.keywords = "my,kw",
                !.notes = "my notes"]}

\* the items of the list: List (initStore, empty query) or the hits of a
\* query, each read with Get
ListItems(viaList) ==
    IF viaList THEN {ListScan(r) : r \in {x \in bookmarks : ~x.hidden}}
    ELSE {r \in bookmarks : ~r.hidden}

\* enter on the selected item of a list just loaded
TUIOpenEdit ==
    /\ tui.mode = "list"
    /\ commands < MaxCommands
    /\ commands' = commands + 1
    /\ \E viaList \in BOOLEAN : \E item \in ListItems(viaList) :
         tui' = [tui EXCEPT !.mode = "editing", !.editBookmark = item]
    /\ UNCHANGED <<bookmarks, bookmarks_vec, now, fetch, manual, metadata, last, prev, cycles, sr, resum, faults, sy, log>>

\* esc
TUICancelEdit ==
    /\ tui.mode = "editing"
    /\ tui' = IdleTUI
    /\ UNCHANGED <<bookmarks, bookmarks_vec, now, fetch, manual, metadata, last, prev, commands, cycles, sr, resum, faults, sy, log>>

\* enter in the modal: saveEdit, then editSaveMsg
TUISaveEdit ==
    /\ TUIMayRun
    /\ tui.mode = "editing"
    /\ \E bm \in EditInputs(tui.editBookmark) :
         /\ bookmarks' = Update(bookmarks, bm, now)
         /\ Record(Call("update", bm, <<>>, "", FALSE, FALSE))
    /\ tui' = IdleTUI
    /\ UNCHANGED <<bookmarks_vec, now, fetch, manual, metadata, commands, cycles, sr, resum, faults, sy, log>>

\* d on the selected item of a list just loaded
TUIPressD ==
    /\ tui.mode = "list"
    /\ commands < MaxCommands
    /\ commands' = commands + 1
    /\ \E item \in ListItems(TRUE) :
         tui' = [tui EXCEPT !.mode = "deleting", !.deleteBookmark = item]
    /\ UNCHANGED <<bookmarks, bookmarks_vec, now, fetch, manual, metadata, last, prev, cycles, sr, resum, faults, sy, log>>

\* n
TUIPressN ==
    /\ tui.mode = "deleting"
    /\ tui' = IdleTUI
    /\ UNCHANGED <<bookmarks, bookmarks_vec, now, fetch, manual, metadata, last, prev, commands, cycles, sr, resum, faults, sy, log>>

\* y: doDelete, then deleteMsg
TUIPressY ==
    /\ TUIMayRun
    /\ tui.mode = "deleting"
    /\ bookmarks_vec' = DeleteVec(bookmarks_vec, tui.deleteBookmark.id)
    /\ bookmarks' = DeleteRows(bookmarks, tui.deleteBookmark.id)
    /\ Record(Call("delete", ZeroBookmark, <<>>, tui.deleteBookmark.id, FALSE, FALSE))
    /\ tui' = IdleTUI
    /\ Logged(IF fetch.pc = "idle" THEN log
              ELSE [log EXCEPT !.deleted = log.deleted \cup {tui.deleteBookmark.id}])
    /\ UNCHANGED <<now, fetch, manual, metadata, commands, cycles, sr, resum, faults, sy>>

----------------------------------------------------------------------------
(* tui: model.Update key by key *)

\* the key names Update tells apart, and "a" for any other rune
Keys ==
    {"q", "ctrl+c", "esc", "tab", "shift+tab", "/", "enter", "j", "k", "g", "G", "o",
     "d", "y", "n", "1", "2", "3", "4", "a"}

\* keys that a text input takes as a character
Runes == {"q", "/", "j", "k", "g", "G", "o", "d", "y", "n", "1", "2", "3", "4", "a"}

SourceOfKey(key) ==
    CASE key = "1" -> "x" [] key = "2" -> "raindrop" [] key = "3" -> "github"
      [] key = "4" -> "manual"

\* initialModel; err is whether m.err is set, a nil bookmark is ZeroBookmark,
\* items and cursor are the list's, cmds the commands returned and not yet
\* run, key the key handled last
initialModel ==
    [searching |-> FALSE, err |-> FALSE, editing |-> FALSE, editBookmark |-> ZeroBookmark,
     editFocusIdx |-> 0, deleting |-> FALSE, deleteBookmark |-> ZeroBookmark,
     sources |-> {"x", "raindrop", "github", "manual"}, allBookmarks |-> <<>>,
     items |-> <<>>, cursor |-> 1, searchInput |-> "", cmds |-> <<>>, quit |-> FALSE,
     key |-> ""]

bookmarksToItems(m, bs) == SelectSeq(bs, LAMBDA b : b.source \in m.sources)

SetItems(m) == [m EXCEPT !.items = bookmarksToItems(m, m.allBookmarks)]

\* m.list.SelectedItem(): the item under the cursor, none past the end
HasSelectedItem(m) == m.cursor \in DOMAIN m.items
SelectedItem(m) == m.items[m.cursor]

\* the commands
QuitCmd == [type |-> "quit", id |-> "", query |-> "", bm |-> ZeroBookmark]
doDelete(id) == [QuitCmd EXCEPT !.type = "doDelete", !.id = id]
doSearch(query) == [QuitCmd EXCEPT !.type = "doSearch", !.query = query]
filterResults == [QuitCmd EXCEPT !.type = "filterResults"]
\* saveEdit: the copy of editBookmark with the values of the four fields
saveEdit(m) == {[QuitCmd EXCEPT !.type = "saveEdit", !.bm = bm] : bm \in EditInputs(m.editBookmark)}

Return(m, cmds) == [m EXCEPT !.cmds = m.cmds \o cmds]

\* the end of Update, reached by a key no case returned for: the edit
\* fields, the search input (with a live search) or the list take the key;
\* of the list only its cursor is modelled
PassOn(m, key) ==
    IF m.editing THEN {m}
    ELSE IF m.searching
    THEN LET v == IF key \in Runes THEN m.searchInput \o key ELSE m.searchInput
         IN  {Return([m EXCEPT !.searchInput = v], <<doSearch(v)>>)}
    ELSE {[m EXCEPT !.cursor = c] : c \in {m.cursor} \cup DOMAIN m.items}

\* for comparison: y deletes the selected item without a confirmation
KeyYUnconfirmed(m) ==
    IF HasSelectedItem(m) THEN {Return(m, <<doDelete(SelectedItem(m).id)>>)}
    ELSE PassOn(m, "y")

\* case "y"
KeyY(m) ==
    IF m.deleting /\ m.deleteBookmark # ZeroBookmark
    THEN {Return(m, <<doDelete(m.deleteBookmark.id)>>)}
    ELSE PassOn(m, "y")

\* Update, case tea.KeyMsg: the models it may return
KeyMsg(m, key) ==
    IF m.err
    THEN IF key \in {"q", "ctrl+c"} THEN {Return(m, <<QuitCmd>>)} ELSE {m}
    ELSE CASE key \in {"ctrl+c", "q"} ->
                IF ~m.searching THEN {Return(m, <<QuitCmd>>)} ELSE PassOn(m, key)
           [] key = "esc" ->
                IF m.editing
                THEN {[m EXCEPT !.editing = FALSE, !.editBookmark = ZeroBookmark]}
                ELSE IF m.searching THEN {[m EXCEPT !.searching = FALSE]}
                ELSE PassOn(m, key)
           [] key = "tab" ->
                IF m.editing THEN {[m EXCEPT !.editFocusIdx = (m.editFocusIdx + 1) % 4]}
                ELSE PassOn(m, key)
           [] key = "shift+tab" ->
                IF m.editing THEN {[m EXCEPT !.editFocusIdx = (m.editFocusIdx - 1 + 4) % 4]}
                ELSE PassOn(m, key)
           [] key = "/" ->
                IF ~m.searching /\ ~m.editing THEN {[m EXCEPT !.searching = TRUE]}
                ELSE PassOn(m, key)
           [] key = "enter" ->
                IF m.editing THEN {Return(m, <<c>>) : c \in saveEdit(m)}
                ELSE IF m.searching
                THEN {Return([m EXCEPT !.searching = FALSE], <<doSearch(m.searchInput)>>)}
                ELSE IF HasSelectedItem(m)
                THEN {[m EXCEPT !.editing = TRUE, !.editBookmark = SelectedItem(m),
                                !.editFocusIdx = 0]}
                ELSE PassOn(m, key)
           [] key \in {"j", "k", "g", "G"} ->
                IF ~m.searching /\ ~m.editing
                THEN LET n == Len(m.items)
                         c == CASE key = "j" -> IF m.cursor < n THEN m.cursor + 1 ELSE m.cursor
                                [] key = "k" -> IF m.cursor > 1 THEN m.cursor - 1 ELSE m.cursor
                                [] key = "g" -> 1
                                [] key = "G" -> IF n > 0 THEN n ELSE m.cursor
                     IN  {[m EXCEPT !.cursor = c]}
                ELSE PassOn(m, key)
           [] key = "d" ->
                IF ~m.searching /\ ~m.editing /\ ~m.deleting /\ HasSelectedItem(m)
                THEN PassOn([m EXCEPT !.deleting = TRUE, !.deleteBookmark = SelectedItem(m)], key)
                ELSE PassOn(m, key)
           [] key = "y" -> KeyY(m)
           [] key = "n" ->
                IF m.deleting
                THEN PassOn([m EXCEPT !.deleting = FALSE, !.deleteBookmark = ZeroBookmark], key)
                ELSE PassOn(m, key)
           [] key \in {"1", "2", "3", "4"} ->
                IF ~m.editing
                THEN LET src == SourceOfKey(key)
                     IN  {Return([m EXCEPT !.sources = IF src \in m.sources
                                                       THEN m.sources \ {src}
                                                       ELSE m.sources \cup {src}],
                                 <<filterResults>>)}
                ELSE PassOn(m, key)
           [] OTHER -> PassOn(m, key)

\* Update, the cases of the messages the commands send back
initMsg(m, err, bs) ==
    IF err THEN [m EXCEPT !.err = TRUE]
    ELSE [m EXCEPT !.allBookmarks = bs, !.items = bookmarksToItems(m, bs)]
searchMsg(m, bs) == SetItems([m EXCEPT !.allBookmarks = bs])
filterMsg(m) == SetItems(m)
editSaveMsg(m, bm) ==
    SetItems([m EXCEPT !.editing = FALSE, !.editBookmark = ZeroBookmark,
                       !.allBookmarks = [i \in DOMAIN m.allBookmarks |->
                                            IF m.allBookmarks[i].id = bm.id
                                               /\ \A j \in 1..(i - 1) : m.allBookmarks[j].id # bm.id
                                            THEN bm ELSE m.allBookmarks[i]]])
deleteMsg(m, id) ==
    SetItems([m EXCEPT !.deleting = FALSE, !.deleteBookmark = ZeroBookmark,
                       !.allBookmarks = SelectSeq(m.allBookmarks, LAMBDA b : b.id # id)])

MaxKeys == 3

\* a key is pressed
TUIKey(key) ==
    /\ ~tui.quit
    /\ commands < MaxKeys
    /\ commands' = commands + 1
    /\ \E m \in KeyMsg(tui, key) : tui' = [m EXCEPT !.key = key]
    /\ UNCHANGED <<bookmarks, bookmarks_vec, now, fetch, manual, metadata, last, prev, cycles, sr, resum, faults, sy, log>>

Without(s, i) == [j \in 1..(Len(s) - 1) |-> IF j < i THEN s[j] ELSE s[j + 1]]

\* one of the commands returned runs, and Update takes its message; the
\* commands run in goroutines, in no fixed order
TUIRun ==
    /\ ~tui.quit
    /\ \E i \in DOMAIN tui.cmds :
         LET c == tui.cmds[i]
             m == [tui EXCEPT !.cmds = Without(tui.cmds, i)]
         IN  CASE c.type = "quit" ->
                    /\ tui' = [m EXCEPT !.quit = TRUE]
                    /\ UNCHANGED <<bookmarks, bookmarks_vec, last, prev>>
               [] c.type = "doDelete" ->
                    /\ bookmarks_vec' = DeleteVec(bookmarks_vec, c.id)
                    /\ bookmarks' = DeleteRows(bookmarks, c.id)
                    /\ Record(Call("delete", ZeroBookmark, <<>>, c.id, FALSE, FALSE))
                    /\ tui' = deleteMsg(m, c.id)
               [] c.type = "saveEdit" ->
                    /\ bookmarks' = Update(bookmarks, c.bm, now)
                    /\ Record(Call("update", c.bm, <<>>, "", FALSE, FALSE))
                    /\ tui' = editSaveMsg(m, [c.bm EXCEPT !.updated_at = now])
                    /\ UNCHANGED bookmarks_vec
               [] c.type = "doSearch" ->
                    /\ \E bs \in Search(bookmarks, c.query, LimitTUI) : tui' = searchMsg(m, bs)
                    /\ UNCHANGED <<bookmarks, bookmarks_vec, last, prev>>
               [] c.type = "filterResults" ->
                    /\ tui' = filterMsg(m)
                    /\ UNCHANGED <<bookmarks, bookmarks_vec, last, prev>>
    /\ UNCHANGED <<now, fetch, manual, metadata, commands, cycles, sr, resum, faults, sy, log>>

----------------------------------------------------------------------------
(* The program: one fetch cycle at a time, manual additions and the TUI *)

NoSearch ==
    [op |-> "none", query |-> "", emb |-> <<>>, limit |-> 0, fts |-> <<>>, vec |-> <<>>,
     out |-> <<>>, err |-> FALSE, source |-> "", urls |-> <<>>]

\* The database file outlives the process.  What earlier runs left for a
\* url: nothing, a star stored at time 1 and enriched by the pipeline, or a
\* tweet stored at time 1.
SeedStar(u) ==
    LET b == PrepareUpsert(GitHubItem(u, 1, "desc"), 1)
        e == Succeeded(Enrich(InsertRow(b), [ok |-> TRUE, content |-> ScrapedContent],
                              [ok |-> FALSE, Summary |-> "", Keywords |-> ""]), 1)
    IN  [rows |-> Update({InsertRow(b)}, e, 1),
         vec |-> UpdateEmbedding({}, b.id, <<1, 0, -1>>)]

SeedTweet(u) ==
    [rows |-> {InsertRow(PrepareUpsert(TwitterItem(u, 1), 1))}, vec |-> {}]

NoSeed == [rows |-> {}, vec |-> {}]

\* table metadata: last_refresh_at and one watermark for each source
MetadataKeys == {"last_refresh_at"} \cup {WatermarkKey(src) : src \in Range(Sources)}

\* the greatest element of a set of times, 0 for the empty set
Newest(S) == IF S = {} THEN 0 ELSE CHOOSE t \in S : \A u \in S : u <= t

\* what the runs that stored the rows left in table metadata: for each source
\* the newest creation time it delivered
SeedMetadata(rows) ==
    [k \in MetadataKeys |->
        IF k = "last_refresh_at" THEN 0
        ELSE Newest({r.created_at : r \in {x \in rows : WatermarkKey(x.source) = k}})]

\* no adapter has fetched yet
NoSync ==
    [src |-> "", incremental |-> FALSE, listing |-> <<>>, items |-> <<>>, before |-> 0,
     after |-> 0, prevSrc |-> "", prevListing |-> <<>>]

SeedStores ==
    {[rows |-> a.rows \cup b.rows, vec |-> a.vec \cup b.vec] :
        a \in {NoSeed} \cup {SeedStar(u) : u \in RepoURLs},
        b \in {NoSeed} \cup {SeedTweet(u) : u \in TweetURLs}}

Init ==
    /\ \E st \in SeedStores :
          bookmarks = st.rows /\ bookmarks_vec = st.vec /\ metadata = SeedMetadata(st.rows)
    /\ now = 1
    /\ fetch = IdleFetch
    /\ tui = IdleTUI
    /\ manual = IdleManual
    /\ resum = IdleResum
    /\ faults = 0
    /\ sy = NoSync
    /\ log = NoLog(FALSE)
    /\ last = NoCall
    /\ prev = NoPrev
    /\ commands = 0
    /\ cycles = 0
    /\ sr = NoSearch

Next ==
    \/ \E force \in BOOLEAN, reprocess \in BOOLEAN, background \in BOOLEAN,
          avail \in SUBSET Range(Sources) :
          FetchStart(force, reprocess, avail, background)
    \/ FetchSource
    \/ FetchUpsert
    \/ FetchMark
    \/ FetchOrphans
    \/ FetchDelete
    \/ FetchPending
    \/ FetchProcess
    \/ FetchPersist
    \/ FetchFinish
    \/ \E url \in URLs : ManualStart(url)
    \/ ManualUpsert
    \/ ManualEnrich
    \/ ManualPersist
    \/ ResumStart
    \/ ResumProcess
    \/ ResumPersist
    \/ TUIOpenEdit
    \/ TUICancelEdit
    \/ TUISaveEdit
    \/ TUIPressD
    \/ TUIPressN
    \/ TUIPressY
    \/ Tick

Spec == Init /\ [][Next]_vars

----------------------------------------------------------------------------
(* The fetch command run alone, on storage that may fail *)

MaxFaults == 1

\* a page saved through Raindrop at time 1, not enriched yet
SeedPage(u) ==
    [rows |-> {InsertRow(PrepareUpsert(RaindropItem(u, 1, FALSE), 1))}, vec |-> {}]

FetchStores ==
    SeedStores
    \cup {[rows |-> a.rows \cup SeedPage(u).rows, vec |-> a.vec] :
             a \in {NoSeed} \cup {SeedStar(r) : r \in RepoURLs}, u \in TweetURLs}

InitFetch ==
    /\ \E st \in FetchStores :
          bookmarks = st.rows /\ bookmarks_vec = st.vec /\ metadata = SeedMetadata(st.rows)
    /\ now = 1
    /\ fetch = IdleFetch
    /\ tui = IdleTUI
    /\ manual = IdleManual
    /\ resum = IdleResum
    /\ last = NoCall
    /\ prev = NoPrev
    /\ commands = 0
    /\ cycles = 0
    /\ sr = NoSearch
    /\ faults = MaxFaults
    /\ sy = NoSync
    /\ log = NoLog(TRUE)

NextFetch ==
    \/ \E force \in BOOLEAN, reprocess \in BOOLEAN, avail \in SUBSET Range(Sources) :
          FetchStart(force, reprocess, avail, FALSE)
    \/ FetchSource
    \/ FetchUpsert
    \/ FetchMark
    \/ FetchOrphans
    \/ FetchDelete
    \/ FetchPending
    \/ FetchProcess
    \/ FetchPersist
    \/ FetchFinish
    \/ Tick

SpecFetch == InitFetch /\ [][NextFetch]_vars

----------------------------------------------------------------------------
(* The forced resync run alone, on storage that does not fail *)

InitForce ==
    /\ \E st \in FetchStores :
          bookmarks = st.rows /\ bookmarks_vec = st.vec /\ metadata = SeedMetadata(st.rows)
    /\ now = 1
    /\ fetch = IdleFetch
    /\ tui = IdleTUI
    /\ manual = IdleManual
    /\ resum = IdleResum
    /\ last = NoCall
    /\ prev = NoPrev
    /\ commands = 0
    /\ cycles = 0
    /\ sr = NoSearch
    /\ faults = 0
    /\ sy = NoSync
    /\ log = [NoLog(TRUE) EXCEPT !.track = TRUE]

NextForce ==
    \/ \E reprocess \in BOOLEAN, avail \in SUBSET Range(Sources) :
          FetchStart(TRUE, reprocess, avail, FALSE)
    \/ FetchSource
    \/ FetchUpsert
    \/ FetchMark
    \/ FetchOrphans
    \/ FetchDelete
    \/ FetchPending
    \/ FetchProcess
    \/ FetchPersist
    \/ FetchFinish
    \/ Tick

SpecForce == InitForce /\ [][NextForce]_vars

----------------------------------------------------------------------------
(* The resummarize command run alone *)

\* a page saved through Raindrop at time 1 with tags and no excerpt, its
\* content fetched by the pipeline and its summarize call failed
SeedTagged(u) ==
    LET b == PrepareUpsert([RaindropItem(u, 1, FALSE) EXCEPT !.keywords = "tag1,tag2"], 1)
        e == Succeeded(Enrich(InsertRow(b), [ok |-> TRUE, content |-> ScrapedContent],
                              [ok |-> FALSE, Summary |-> "", Keywords |-> ""]), 1)
    IN  [rows |-> Update({InsertRow(b)}, e, 1), vec |-> {}]

ResumStores ==
    {[rows |-> a.rows \cup b.rows, vec |-> a.vec \cup b.vec] :
        a \in {NoSeed} \cup {SeedStar(u) : u \in RepoURLs} \cup {SeedTagged(u) : u \in RepoURLs},
        b \in {NoSeed} \cup {SeedTweet(u) : u \in TweetURLs} \cup {SeedTagged(u) : u \in TweetURLs}}

InitResum ==
    /\ \E st \in ResumStores :
          bookmarks = st.rows /\ bookmarks_vec = st.vec /\ metadata = SeedMetadata(st.rows)
    /\ now = 1
    /\ fetch = IdleFetch
    /\ tui = IdleTUI
    /\ manual = IdleManual
    /\ resum = IdleResum
    /\ last = NoCall
    /\ prev = NoPrev
    /\ commands = 0
    /\ cycles = 0
    /\ sr = NoSearch
    /\ faults = 0
    /\ sy = NoSync
    /\ log = NoLog(FALSE)

NextResummarize ==
    \/ ResumStart
    \/ ResumProcess
    \/ ResumPersist
    \/ Tick

SpecResum == InitResum /\ [][NextResummarize]_vars

----------------------------------------------------------------------------
(* The TUI with its background refresh and the delete key *)

InitRefresh ==
    /\ \E st \in SeedStores :
          bookmarks = st.rows /\ bookmarks_vec = st.vec /\ metadata = SeedMetadata(st.rows)
    /\ now = 1
    /\ fetch = IdleFetch
    /\ tui = IdleTUI
    /\ manual = IdleManual
    /\ resum = IdleResum
    /\ last = NoCall
    /\ prev = NoPrev
    /\ commands = 0
    /\ cycles = 0
    /\ sr = NoSearch
    /\ faults = 0
    /\ sy = NoSync
    /\ log = NoLog(TRUE)

NextRefresh ==
    \/ \E avail \in SUBSET Range(Sources) : FetchStart(FALSE, FALSE, avail, TRUE)
    \/ FetchSource
    \/ FetchUpsert
    \/ FetchPending
    \/ FetchProcess
    \/ FetchPersist
    \/ FetchFinish
    \/ TUIPressD
    \/ TUIPressN
    \/ TUIPressY
    \/ Tick

SpecRefresh == InitRefresh /\ [][NextRefresh]_vars

----------------------------------------------------------------------------
(* The TUI key by key, with no refresh due *)

\* initStore: List(nil, 100), then initMsg
ListLimitInit == 100

InitTUI ==
    /\ \E st \in SeedStores :
          /\ bookmarks = st.rows /\ bookmarks_vec = st.vec
          /\ metadata = [SeedMetadata(st.rows) EXCEPT !["last_refresh_at"] = 1]
          /\ \/ \E bs \in List(st.rows, <<>>, ListLimitInit) : tui = initMsg(initialModel, FALSE, bs)
             \/ tui = initMsg(initialModel, TRUE, <<>>)
    /\ now = 1
    /\ fetch = IdleFetch
    /\ manual = IdleManual
    /\ resum = IdleResum
    /\ last = NoCall
    /\ prev = NoPrev
    /\ commands = 0
    /\ cycles = 0
    /\ sr = NoSearch
    /\ faults = 0
    /\ sy = NoSync
    /\ log = NoLog(FALSE)

NextTUI ==
    \/ \E key \in Keys : TUIKey(key)
    \/ TUIRun

SpecTUI == InitTUI /\ [][NextTUI]_vars

----------------------------------------------------------------------------
(* The store called directly, as its tests call it *)

\* the bookmarks of TestUpsertReturningNew (no ScrapeStatus) and of
\* TestMarkForReprocess (success, with content)
TestBookmarks ==
    {[ZeroBookmark EXCEPT !.source = "github", !.url = u, !.title = t] :
        u \in URLs, t \in {"Test Repo 1", "Updated Title"}}
    \cup {[ZeroBookmark EXCEPT !.source = "github", !.url = u, !.title = "Test",
                               !.scrape_status = "success", !.raw_content = "Test content",
                               !.summary = "Test summary", !.keywords = "test, keywords"] :
             u \in URLs}

MaxCalls == 3

InitStore ==
    /\ \E st \in SeedStores :
          bookmarks = st.rows /\ bookmarks_vec = st.vec /\ metadata = SeedMetadata(st.rows)
    /\ now = 1
    /\ fetch = IdleFetch
    /\ tui = IdleTUI
    /\ manual = IdleManual
    /\ resum = IdleResum
    /\ faults = 0
    /\ sy = NoSync
    /\ log = NoLog(FALSE)
    /\ last = NoCall
    /\ prev = NoPrev
    /\ commands = 0
    /\ cycles = 0
    /\ sr = NoSearch

CallUpsert(b) ==
    /\ commands < MaxCalls
    /\ commands' = commands + 1
    /\ LET r == UpsertReturningNew(bookmarks, b, now)
       IN  /\ bookmarks' = r.rows
           /\ Record(Call("upsert", r.b, <<>>, "", r.isNew, r.err))
    /\ UNCHANGED <<bookmarks_vec, now, fetch, tui, manual, resum, metadata, cycles, sr, faults, sy, log>>

CallMarkForReprocess(ids) ==
    /\ commands < MaxCalls
    /\ commands' = commands + 1
    /\ bookmarks' = MarkForReprocess(bookmarks, ids)
    /\ Record(Call("mark", ZeroBookmark, ids, "", FALSE, FALSE))
    /\ UNCHANGED <<bookmarks_vec, now, fetch, tui, manual, resum, metadata, cycles, sr, faults, sy, log>>

NextStore ==
    \/ \E b \in TestBookmarks : CallUpsert(b)
    \/ \E u \in URLs : CallMarkForReprocess(<<generateID(u)>>)
    \/ Tick

SpecStore == InitStore /\ [][NextStore]_vars

----------------------------------------------------------------------------
(* The add command run alone *)

InitManual ==
    /\ \E st \in SeedStores :
          bookmarks = st.rows /\ bookmarks_vec = st.vec /\ metadata = SeedMetadata(st.rows)
    /\ now = 1
    /\ fetch = IdleFetch
    /\ tui = IdleTUI
    /\ manual = IdleManual
    /\ resum = IdleResum
    /\ last = NoCall
    /\ prev = NoPrev
    /\ commands = 0
    /\ cycles = 0
    /\ sr = NoSearch
    /\ faults = 0
    /\ sy = NoSync
    /\ log = NoLog(TRUE)

NextManual ==
    \/ \E url \in URLs : ManualStart(url)
    \/ ManualUpsert
    \/ ManualEnrich
    \/ ManualPersist
    \/ Tick

SpecManual == InitManual /\ [][NextManual]_vars

----------------------------------------------------------------------------
(* Queries against a store at rest *)

MaxRankLen == 2

\* vectors that earlier runs stored, and vectors of queries
SearchVectors == {<<1, 0, -1>>, <<0, 2, 0>>, <<1, 1>>}
QueryEmbeddings == {<<>>, <<1, 0, -1>>, <<1, 1>>}

StoresFor(seed) ==
    {[rows |-> seed.rows, vec |-> {}]}
    \cup {[rows |-> seed.rows, vec |-> UpdateEmbedding({}, r.id, v)] :
             r \in seed.rows, v \in SearchVectors}

SearchStores ==
    {[rows |-> a.rows \cup b.rows, vec |-> a.vec \cup b.vec] :
        a \in UNION {StoresFor(x) : x \in {NoSeed} \cup {SeedStar(u) : u \in RepoURLs}},
        b \in UNION {StoresFor(x) : x \in {NoSeed} \cup {SeedTweet(u) : u \in TweetURLs}}}

\* rank lists as ftsSearch and SearchWithEmbedding build them: distinct ids,
\* ranks 1, 2, ...
RankIDs == {"A", "B", "C"}
RankLists ==
    {Ranked(p) : p \in {q \in SeqsUpTo(RankIDs, MaxRankLen) :
                           \A i, j \in DOMAIN q : i # j => q[i] # q[j]}}

InitSearch ==
    /\ \E st \in SearchStores :
          bookmarks = st.rows /\ bookmarks_vec = st.vec /\ metadata = SeedMetadata(st.rows)
    /\ now = 1
    /\ fetch = IdleFetch
    /\ tui = IdleTUI
    /\ manual = IdleManual
    /\ resum = IdleResum
    /\ faults = 0
    /\ sy = NoSync
    /\ log = NoLog(FALSE)
    /\ last = NoCall
    /\ prev = NoPrev
    /\ commands = 0
    /\ cycles = 0
    /\ sr = NoSearch

CallSearch(query, limit) ==
    /\ \E out \in Search(bookmarks, query, limit) :
         sr' = [op |-> "Search", query |-> query, emb |-> <<>>, limit |-> limit,
                fts |-> <<>>, vec |-> <<>>, out |-> out, err |-> FALSE, source |-> "", urls |-> <<>>]
    /\ UNCHANGED <<bookmarks, bookmarks_vec, now, fetch, tui, manual, resum, metadata, last,
                   prev, commands, cycles, faults, sy, log>>

CallHybridSearchWithEmbedding(query, queryEmbedding, limit) ==
    /\ \E out \in HybridSearchWithEmbedding(bookmarks, bookmarks_vec, query, queryEmbedding, limit) :
         sr' = [op |-> "HybridSearchWithEmbedding", query |-> query, emb |-> queryEmbedding,
                limit |-> limit, fts |-> <<>>, vec |-> <<>>, out |-> out, err |-> FALSE, source |-> "", urls |-> <<>>]
    /\ UNCHANGED <<bookmarks, bookmarks_vec, now, fetch, tui, manual, resum, metadata, last,
                   prev, commands, cycles, faults, sy, log>>

CallHybridRank(ftsResults, vecResults) ==
    /\ \E out \in hybridRank(ftsResults, vecResults) :
         sr' = [op |-> "hybridRank", query |-> "", emb |-> <<>>, limit |-> 0,
                fts |-> ftsResults, vec |-> vecResults, out |-> out, err |-> FALSE, source |-> "", urls |-> <<>>]
    /\ UNCHANGED <<bookmarks, bookmarks_vec, now, fetch, tui, manual, resum, metadata, last,
                   prev, commands, cycles, faults, sy, log>>

\* SearchWithEmbedding: the ranked ids; the error of GetAllWithEmbeddings apart,
\* it returns none
CallSearchWithEmbedding(queryEmbedding, limit) ==
    /\ \E out \in SearchWithEmbedding(bookmarks_vec, queryEmbedding, limit) :
         sr' = [op |-> "SearchWithEmbedding", query |-> "", emb |-> queryEmbedding,
                limit |-> limit, fts |-> <<>>, vec |-> <<>>, out |-> out, err |-> FALSE, source |-> "", urls |-> <<>>]
    /\ UNCHANGED <<bookmarks, bookmarks_vec, now, fetch, tui, manual, resum, metadata, last,
                   prev, commands, cycles, faults, sy, log>>

\* GetOrphanedBySource: the rows in any order (the query has no ORDER BY)
CallGetOrphanedBySource(source, currentURLs) ==
    /\ \E out \in Perms(GetOrphanedBySource(bookmarks, source, currentURLs)) :
         sr' = [NoSearch EXCEPT !.op = "GetOrphanedBySource", !.source = source,
                                !.urls = currentURLs, !.out = out]
    /\ UNCHANGED <<bookmarks, bookmarks_vec, now, fetch, tui, manual, resum, metadata, last,
                   prev, commands, cycles, faults, sy, log>>

\* Store.Update of a bookmark read with Get, its Hidden set: the one way the
\* store gives to hide a bookmark.  One bookmark is hidden at most; sr is
\* about the present store, so the results of earlier calls are dropped.
CallUpdateHidden(id) ==
    /\ \A r \in bookmarks : ~r.hidden
    /\ \E b \in Get(bookmarks, id) :
         bookmarks' = Update(bookmarks, [b EXCEPT !.hidden = TRUE], now)
    /\ sr' = NoSearch
    /\ UNCHANGED <<bookmarks_vec, now, fetch, tui, manual, resum, metadata, last, prev,
                   commands, cycles, faults, sy, log>>

NextSearch ==
    \/ \E query \in Queries, limit \in {LimitCLI, LimitTUI} : CallSearch(query, limit)
    \/ \E query \in Queries, e \in QueryEmbeddings, limit \in {LimitCLI, LimitTUI} :
          CallHybridSearchWithEmbedding(query, e, limit)
    \/ \E f \in RankLists, v \in RankLists : CallHybridRank(f, v)
    \/ \E e \in QueryEmbeddings, limit \in {LimitCLI, LimitTUI} : CallSearchWithEmbedding(e, limit)
    \/ \E id \in IDs : CallUpdateHidden(id)
    \/ \E source \in Range(Sources), currentURLs \in SeqsUpTo(URLs, MaxRankLen) :
          CallGetOrphanedBySource(source, currentURLs)

SpecSearch == InitSearch /\ [][NextSearch]_vars

----------------------------------------------------------------------------
(* The source adapters called one after the other *)

MaxListing == 2

\* two entries of each service, each with the creation time the service
\* reports
SyncItems(src) ==
    IF src = "github"
    THEN {GitHubItem(u, c, "desc") : u \in {"https://github.com/o/r", "https://github.com/o/s"},
                                     c \in Times}
    ELSE IF src = "raindrop"
    THEN {RaindropItem(u, c, TRUE) : u \in {"https://example.com/a", "https://example.com/b"},
                                     c \in Times}
    ELSE {TwitterItem(u, c) : u \in {"https://x.com/u/status/1", "https://x.com/u/status/2"},
                              c \in Times}

\* GitHub (sort=created, direction=desc) and Raindrop (-created) list the
\* newest entry first.  The bookmarks of X come in the order they were
\* bookmarked, whatever the creation times of the tweets.
Delivered(src, l) ==
    /\ \A i, j \in DOMAIN l : i # j => l[i].url # l[j].url
    /\ src # "x" => \A i, j \in DOMAIN l : i < j => l[i].created_at >= l[j].created_at

Listings(src) == {l \in SeqsUpTo(SyncItems(src), MaxListing) : Delivered(src, l)}

InitSync ==
    /\ bookmarks = {}
    /\ bookmarks_vec = {}
    /\ metadata = SeedMetadata({})
    /\ now = 1
    /\ fetch = IdleFetch
    /\ tui = IdleTUI
    /\ manual = IdleManual
    /\ resum = IdleResum
    /\ last = NoCall
    /\ prev = NoPrev
    /\ commands = 0
    /\ cycles = 0
    /\ sr = NoSearch
    /\ faults = 0
    /\ sy = NoSync
    /\ log = NoLog(FALSE)

\* src.Fetch(incremental) on the listing the service holds at the time
CallSourceFetch(src, incremental, listing) ==
    LET key == WatermarkKey(src)
        lastSyncTime == IF incremental THEN metadata[key] ELSE 0
        r == AdapterFetch(listing, lastSyncTime)
    IN  /\ metadata' = IF r.newestTime # 0 THEN [metadata EXCEPT ![key] = r.newestTime]
                       ELSE metadata
        /\ sy' = [src |-> src, incremental |-> incremental, listing |-> listing,
                  items |-> r.items, before |-> metadata[key], after |-> metadata'[key],
                  prevSrc |-> sy.src, prevListing |-> sy.listing]
        /\ UNCHANGED <<bookmarks, bookmarks_vec, now, fetch, tui, manual, resum, last, prev,
                       commands, cycles, sr, faults, log>>

NextSync ==
    \E src \in Range(Sources), incremental \in BOOLEAN :
       \E listing \in Listings(src) : CallSourceFetch(src, incremental, listing)

SpecSync == InitSync /\ [][NextSync]_vars

----------------------------------------------------------------------------
(* Properties *)

\* the step is a store.UpsertReturningNew call, of Fetch or of AddManualURL
UpsertActs ==
    \/ fetch.pc = "upsert" /\ fetch' # fetch
    \/ manual.pc = "upsert" /\ manual' # manual

\* the bookmark handed to that call
Incoming == IF fetch.pc = "upsert" THEN fetch.items[fetch.i] ELSE manual.b

\* C1 (upsert idempotence): when a URL that was absent is upserted and the
\* next store call upserts the same URL again, the first call reported
\* isNew = true and the second isNew = false, the store holds exactly one
\* row for the URL, and its id is the same after both calls and is the
\* digest of the URL.
C1_UpsertIdempotent ==
    (/\ prev.op = "upsert" /\ prev.absent
     /\ last.op = "upsert" /\ last.b.url = prev.key) =>
        /\ prev.isNew
        /\ ~last.isNew
        /\ ~last.err
        /\ Cardinality(RowByURL(bookmarks, prev.key)) = 1
        /\ prev.stored = {generateID(prev.key)}
        /\ {r.id : r \in RowByURL(bookmarks, prev.key)} = prev.stored
        /\ last.b.id = generateID(prev.key)

C1_Witness ==
    /\ prev.op = "upsert" /\ prev.absent
    /\ last.op = "upsert" /\ last.b.url = prev.key

\* what merge-don't-clobber asks of one text field
MergedText(stored, incoming, result) ==
    result = IF incoming # "" THEN incoming ELSE stored

MergedTime(stored, incoming, result) ==
    result = IF incoming # 0 THEN incoming ELSE stored

\* C2 (merge-don't-clobber): an upsert that hits an existing URL leaves in
\* each of title, summary, keywords, notes, raw_content, scraped_at and
\* scrape_status the stored value when the incoming value is empty and the
\* incoming value when it is not.
C2_MergeDontClobber ==
    [][UpsertActs =>
         \A old \in RowByURL(bookmarks, Incoming.url) :
           \A new \in RowByURL(bookmarks', Incoming.url) :
              /\ MergedText(old.title, Incoming.title, new.title)
              /\ MergedText(old.summary, Incoming.summary, new.summary)
              /\ MergedText(old.keywords, Incoming.keywords, new.keywords)
              /\ MergedText(old.notes, Incoming.notes, new.notes)
              /\ MergedText(old.raw_content, Incoming.raw_content, new.raw_content)
              /\ MergedTime(old.scraped_at, Incoming.scraped_at, new.scraped_at)
              /\ MergedText(old.scrape_status, Incoming.scrape_status, new.scrape_status)]_vars

\* the step is the store.MarkForReprocess call of Fetch
MarkActs == fetch.pc = "mark" /\ fetch' # fetch

\* C3 (reprocess reset): MarkForReprocess(ids) leaves every listed bookmark
\* with scrape_status pending and empty raw_content, summary and keywords and
\* otherwise as it was, so that GetPending returns it; it changes no bookmark
\* that is not listed; on an empty list it changes nothing.
C3_ReprocessReset ==
    [][/\ MarkForReprocess(bookmarks, <<>>) = bookmarks
       /\ MarkActs =>
            LET ids == Range(fetch.idsToReprocess)
            IN  /\ \A r \in bookmarks : r.id \notin ids => r \in bookmarks'
                /\ \A r \in bookmarks : r.id \in ids =>
                      LET q == [r EXCEPT !.scrape_status = "pending", !.raw_content = "",
                                         !.summary = "", !.keywords = ""]
                      IN  /\ q \in bookmarks'
                          /\ \A p \in GetPending(bookmarks', PendingLimit) : q \in Range(p)
                /\ Cardinality(bookmarks') = Cardinality(bookmarks)
                /\ bookmarks_vec' = bookmarks_vec]_vars

\* a listed bookmark that had been enriched is pending again; another
\* bookmark is not listed
C3_Witness ==
    /\ last.op = "mark"
    /\ \E r \in bookmarks :
         /\ r.id \in Range(last.ids)
         /\ r.scrape_status = "pending" /\ r.scraped_at # 0 /\ r.raw_content = ""
    /\ \E r \in bookmarks : r.id \notin Range(last.ids)

\* the step is a store.Delete call, of the orphan cleanup or of the TUI
DeleteActs ==
    \/ fetch.pc = "delete" /\ fetch' # fetch
    \/ fetch.pc # "delete" /\ tui.mode = "deleting" /\ last' # last /\ last'.op = "delete"

DeleteTarget ==
    IF fetch.pc = "delete" THEN Head(fetch.orphans).id ELSE tui.deleteBookmark.id

\* C4 (delete cascades and is idempotent): Delete(id) leaves neither a
\* bookmark nor an embedding with that id and touches no other row; it
\* returns no error; when there was no bookmark and no embedding with that
\* id (deleted before, or never stored) the store is left unchanged.
C4_DeleteCascades ==
    [][DeleteActs =>
         LET id == DeleteTarget
         IN  /\ bookmarks' = {r \in bookmarks : r.id # id}
             /\ bookmarks_vec' = {e \in bookmarks_vec : e.id # id}
             /\ RowByID(bookmarks', id) = {}
             /\ {e \in bookmarks_vec' : e.id = id} = {}
             /\ ~last'.err
             /\ (RowByID(bookmarks, id) = {} /\ {e \in bookmarks_vec : e.id = id} = {}) =>
                   (bookmarks' = bookmarks /\ bookmarks_vec' = bookmarks_vec)]_vars

\* a bookmark was deleted and the next store call deleted the same id again
C4_Witness ==
    /\ prev.op = "delete" /\ ~prev.absent
    /\ last.op = "delete" /\ last.absent /\ last.id = prev.key

\* C5 (embedding ownership): every row of bookmarks_vec has the id of a
\* bookmark currently in the store.
C5_EmbeddingOwned ==
    \A e \in bookmarks_vec : RowByID(bookmarks, e.id) # {}

\* C6 (content/status): a bookmark whose raw_content is not empty has
\* scrape_status success or failed.
C6_ContentStatus ==
    \A r \in bookmarks : r.raw_content # "" => r.scrape_status \in {"success", "failed"}

\* the pipeline of a reprocess cycle has stored the content of a bookmark
C6_Witness ==
    /\ last.op = "update"
    /\ fetch.reprocess
    /\ fetch.pc \in {"process", "finish"}
    /\ \E r \in bookmarks :
         /\ r.id = last.b.id
         /\ r.raw_content = ScrapedContent
         /\ r.scrape_status = "success"

\* C7 (timestamps): created_at <= updated_at for every bookmark.
C7_CreatedBeforeUpdated ==
    \A r \in bookmarks : r.created_at <= r.updated_at

\* C8 (created_at is write-once): a bookmark inserted by an upsert gets the
\* created_at its source supplied, or the time of the insert when none was
\* supplied; no step changes the created_at of a bookmark that stays in the
\* store.
C8_CreatedAtWriteOnce ==
    [][/\ \A r \in bookmarks : \A q \in bookmarks' :
            q.id = r.id => q.created_at = r.created_at
       /\ UpsertActs =>
            \A q \in bookmarks' :
               RowByID(bookmarks, q.id) = {} =>
                  q.created_at = IF Incoming.created_at # 0 THEN Incoming.created_at ELSE now]_vars

\* an upsert has hit a stored bookmark with another creation time
C8_Witness ==
    /\ last.op = "upsert" /\ ~last.absent /\ ~last.err
    /\ \E r \in RowByURL(bookmarks, last.b.url) : r.created_at # last.b.created_at

\* the share of one rank list in the fused score of id
Contribution(list, id) ==
    IF \E i \in DOMAIN list : list[i].ID = id
    THEN LET i == CHOOSE j \in DOMAIN list : list[j].ID = id
         IN  Frac(1, 60 + list[i].Rank)
    ELSE Frac(0, 1)

\* C9 (reciprocal rank fusion): hybridRank returns each id of the union of
\* the two lists exactly once, with the score sum of 1/(60 + rank) over the
\* lists holding the id, in order of non-increasing score; lexical
\* [A:1, B:2] with vector [B:1, C:2] gives B, A, C.
C9_ReciprocalRankFusion ==
    sr.op = "hybridRank" =>
        LET ids == {sr.fts[i].ID : i \in DOMAIN sr.fts} \cup {sr.vec[i].ID : i \in DOMAIN sr.vec}
        IN  /\ {sr.out[i].ID : i \in DOMAIN sr.out} = ids
            /\ Len(sr.out) = Cardinality(ids)
            /\ \A i \in DOMAIN sr.out :
                  FracEq(sr.out[i].Score,
                         FracAdd(Contribution(sr.fts, sr.out[i].ID),
                                 Contribution(sr.vec, sr.out[i].ID)))
            /\ \A i, j \in DOMAIN sr.out : i < j => ~FracGT(sr.out[j].Score, sr.out[i].Score)
            /\ (sr.fts = Ranked(<<"A", "B">>) /\ sr.vec = Ranked(<<"B", "C">>)) =>
                  [i \in DOMAIN sr.out |-> sr.out[i].ID] = <<"B", "A", "C">>

C9_Witness ==
    /\ sr.op = "hybridRank"
    /\ sr.fts = Ranked(<<"A", "B">>)
    /\ sr.vec = Ranked(<<"B", "C">>)
    /\ Len(sr.out) = 3

\* both searches of the recorded call return nothing
BothSearchesEmpty ==
    /\ \A f \in ftsSearch(bookmarks, sr.query, FTSLimit) : f.results = <<>>
    /\ IF sr.op = "Search" THEN vectorSearch(sr.query, FTSLimit) = <<>>
       ELSE SearchWithEmbedding(bookmarks_vec, sr.emb, FTSLimit) = {<<>>}

\* C10 (fallback on an empty hybrid result): for a non-empty query for which
\* the lexical and the vector search both return nothing, Search and
\* HybridSearchWithEmbedding each return the plain listing of the bookmarks
\* that are not hidden; hybridRank of two empty lists is empty.
C10_FallbackOnEmpty ==
    /\ (sr.op \in {"Search", "HybridSearchWithEmbedding"} /\ sr.query # "" /\ BothSearchesEmpty)
          => sr.out \in List(bookmarks, <<>>, sr.limit)
    /\ (sr.op = "hybridRank" /\ sr.fts = <<>> /\ sr.vec = <<>>) => sr.out = <<>>

\* C11 (hidden exclusion): no bookmark with hidden = true is returned by List
\* (Search with the empty query), Search, SearchWithEmbedding or
\* HybridSearchWithEmbedding.
C11_HiddenExcluded ==
    /\ sr.op \in {"Search", "HybridSearchWithEmbedding"} =>
          \A i \in DOMAIN sr.out : ~sr.out[i].hidden
    /\ sr.op = "SearchWithEmbedding" =>
          \A i \in DOMAIN sr.out : \A r \in RowByID(bookmarks, sr.out[i].ID) : ~r.hidden

\* the ids of a list of bookmarks or of scored results
OutIDs(out) == [i \in DOMAIN out |-> out[i].id]
RankedIDs(v) == [i \in DOMAIN v |-> v[i].ID]

C14_WatermarkIdempotent ==
    (/\ sy.src # "" /\ sy.incremental /\ sy.before # 0
     /\ sy.prevSrc = sy.src /\ sy.prevListing = sy.listing) =>
        /\ sy.items = <<>>
        /\ sy.after = sy.before

\* C13: GetOrphanedBySource(source, currentURLs) returns exactly the bookmarks
\* of that source whose URL is not among currentURLs, each once, and with an
\* empty currentURLs every bookmark of that source.
OfSource(source) == {r \in bookmarks : r.source = source}

C13_OrphanDetection ==
    sr.op = "GetOrphanedBySource" =>
        /\ Len(sr.out) = Cardinality(Range(sr.out))
        /\ Range(sr.out) = {OrphanScan(r) : r \in {x \in OfSource(sr.source) :
                                                     x.url \notin Range(sr.urls)}}
        /\ sr.urls = <<>> => {o.id : o \in Range(sr.out)} = {r.id : r \in OfSource(sr.source)}

C13_Witness ==
    /\ sr.op = "GetOrphanedBySource" /\ sr.urls # <<>> /\ Len(sr.out) = 1
    /\ \E r \in bookmarks : r.url \in Range(sr.urls)

\* C15: a source that is not available is left out and the cycle goes on with
\* the others; Fetch ends with "no sources available" exactly when no enabled
\* source is available, and then it has written no bookmark, no watermark and
\* no last-refresh time.
StartActs == fetch.pc = "idle" /\ fetch' # fetch

Available == log'.avail \cap Range(Sources)

C15_SourceAvailability ==
    [][StartActs =>
          /\ Range(fetch'.srcs) = Available
          /\ \A i, j \in DOMAIN fetch'.srcs : i # j => fetch'.srcs[i] # fetch'.srcs[j]
          /\ (fetch'.result = "no sources available") <=> (Available = {})
          /\ Available = {} =>
                /\ fetch'.pc = "idle"
                /\ UNCHANGED <<bookmarks, bookmarks_vec, metadata>>
          /\ Available # {} => fetch'.pc = "source"]_vars

C15_Witness ==
    /\ fetch.pc = "finish" /\ fetch.totalNewItems > 0
    /\ log.avail # {} /\ log.avail # Range(Sources)

\* C16: a source whose fetch fails is skipped: the step writes nothing, the
\* cycle goes on with the next source or with the pipeline, and no upsert,
\* reset or deletion is made on behalf of the failed source; no bookmark of
\* a failed source is removed.
SourceFails == fetch.pc = "source" /\ log'.failed # log.failed

PerSourceActs == fetch.pc \in {"upsert", "mark", "orphans", "delete"} /\ fetch' # fetch

C17_StorageErrorsFatal ==
    [][(fetch.pc \in {"upsert", "delete", "process", "persist", "finish"} /\ faults' < faults) =>
          /\ fetch'.pc = "idle"
          /\ fetch'.result \notin {"", "ok"}]_vars

\* C18: a cycle that is not forced removes no bookmark: every id stored
\* before one of its steps is stored after it.  In a forced cycle an orphan
\* of a source is deleted only when every item the source returned has been
\* passed to the upsert, and is stored unless that upsert failed.
StoredIDs(tbl) == {r.id : r \in tbl}

FetchActs == fetch.pc # "idle" /\ fetch' # fetch

Upserted(f, tbl, fl) ==
    /\ f.items # <<>> => f.i = Len(f.items)
    /\ fl = MaxFaults => \A j \in DOMAIN f.items : RowByURL(tbl, f.items[j].url) # {}

Gated(f) == f.totalNewItems = 0 /\ ~f.reprocess

StatusOf(tbl) == {<<r.id, r.scrape_status>> : r \in tbl}

PendingOrFailed == {r \in bookmarks : r.scrape_status \in {"pending", "failed"}}

Received(f) == IF f.pc = "process" THEN f.pending ELSE <<>>

ScrapeFails == fetch.pc = "process" /\ fetch' # fetch /\ "scrape" \in log'.errors

Item == fetch.pending[fetch.k]

C20_ContentFetchFailure ==
    [][ScrapeFails =>
          /\ Item.raw_content = ""
          /\ log'.calls = {"scrape"}
          /\ bookmarks_vec' = bookmarks_vec
          /\ \A r \in bookmarks :
                IF r.id = Item.id
                THEN \E q \in bookmarks' :
                        /\ q.id = r.id
                        /\ faults' = faults => q.scrape_status = "failed"
                        /\ q.raw_content = r.raw_content
                        /\ q.summary = r.summary
                        /\ q.keywords = r.keywords
                ELSE r \in bookmarks'
          /\ StoredIDs(bookmarks') = StoredIDs(bookmarks)
          /\ fetch'.pc = IF fetch.k < Len(fetch.pending) THEN "process" ELSE "finish"
          /\ fetch'.k = IF fetch.k < Len(fetch.pending) THEN fetch.k + 1 ELSE fetch.k
          /\ fetch'.pending = fetch.pending]_vars

C20_Witness ==
    /\ "scrape" \in log.errors /\ log.calls = {"scrape"}
    /\ last.op = "update" /\ ~last.err /\ ~last.absent
    /\ \E r \in bookmarks : r.id = last.b.id /\ r.scrape_status = "failed" /\ r.raw_content = ""
    /\ fetch.pc = "process" /\ fetch.k = 2

\* C21: a pending item whose content fetch succeeded, or was skipped because
\* raw_content was there, is persisted with scrape_status "success" and
\* scraped_at set to the time of the write, whatever summarize and embed
\* return (the store taking the write); a failed summarize does not stop the
\* embed call, and a failed embed call leaves bookmarks_vec as it was.
ContentObtained == fetch.pc = "process" /\ fetch' # fetch /\ "scrape" \notin log'.errors

PersistActs == fetch.pc = "persist" /\ fetch' # fetch

MarkedSuccess(id, tbl, t) ==
    \A r \in RowByID(tbl, id) : r.scrape_status = "success" /\ r.scraped_at = t /\ t # 0

C21_SuccessMeansContent ==
    [][/\ ContentObtained =>
             /\ fetch'.pc = "persist" <=> "embed" \in log'.calls \ log'.errors
             /\ fetch'.pc = "persist" => fetch'.b.id = Item.id /\ fetch'.b.raw_content # ""
             /\ (fetch'.pc # "persist" /\ faults' = faults) =>
                   /\ RowByID(bookmarks', Item.id) # {}
                   /\ MarkedSuccess(Item.id, bookmarks', now)
             /\ "embed" \in log'.errors => bookmarks_vec' = bookmarks_vec
             /\ \A em \in EmbedOutcomes, sc \in ScrapeOutcomes :
                   (Item.raw_content # "" \/ sc.ok) =>
                      ("embed" \in ProviderCalls(Item, sc, em) <=> em.called)
       /\ (PersistActs /\ faults' = faults) =>
             /\ RowByID(bookmarks', fetch.b.id) # {}
             /\ MarkedSuccess(fetch.b.id, bookmarks', now)
       /\ (ContentObtained \/ PersistActs) =>
             \A q \in bookmarks' : q.scrape_status = "failed" => q \in bookmarks]_vars

C21_Witness ==
    /\ log.errors = {"summarize", "embed"} /\ "embed" \in log.calls
    /\ last.op = "update" /\ ~last.err
    /\ \E r \in bookmarks : /\ r.id = last.b.id /\ r.scrape_status = "success"
                              /\ r.summary = "" /\ r.scraped_at = now
                              /\ \E e \in bookmarks_vec : e.id = r.id

\* C22: an enrichment step, of the pending loop of Fetch or of resummarize,
\* that writes a bookmark which had keywords leaves those keywords as they
\* were; generated keywords are stored only over an empty field.
EnrichmentWrites ==
    /\ fetch.pc \in {"process", "persist"} \/ resum.pc \in {"process", "persist"}
    /\ bookmarks' # bookmarks

C22_KeywordsPreserved ==
    [][EnrichmentWrites =>
          \A r \in bookmarks : \A q \in RowByID(bookmarks', r.id) :
              r.keywords # "" => q.keywords = r.keywords]_vars

\* C23: for every outcome of the content fetch, the summarize call and the
\* embed call, the add command leaves the new record with the scrape_status,
\* raw_content, summary and keywords that the body of the pending loop of
\* Fetch leaves for the same pending row and the same outcomes, and an
\* embedding is stored in the one case exactly if it is in the other.
ScrapeOutcomeOf(errs) ==
    IF "scrape" \in errs THEN [ok |-> FALSE, content |-> ""]
    ELSE [ok |-> TRUE, content |-> ScrapedContent]

SummarizeOutcomeOf(errs) ==
    CHOOSE su \in SummarizeOutcomes : su.ok <=> "summarize" \notin errs

PipelineRecord(b, errs, t) ==
    IF b.raw_content = "" /\ ~ScrapeOutcomeOf(errs).ok THEN Failed(b)
    ELSE Succeeded(Enrich(b, ScrapeOutcomeOf(errs), SummarizeOutcomeOf(errs)), t)

PipelineEmbeds(b, calls, errs) ==
    /\ ~(b.raw_content = "" /\ "scrape" \in errs)
    /\ "embed" \in calls \ errs

ManualReturns == manual.pc \in {"enrich", "persist"} /\ manual'.pc = "idle"

C23_ManualEqualsPipeline ==
    [][ManualReturns =>
          \A b \in RowByID(bookmarks, manual.b.id) :
             LET p == PipelineRecord(b, log'.errors, now)
             IN  /\ \E q \in RowByID(bookmarks', b.id) :
                        /\ q.scrape_status = p.scrape_status
                        /\ q.raw_content = p.raw_content
                        /\ q.summary = p.summary
                        /\ q.keywords = p.keywords
                 /\ (\E e \in bookmarks_vec' : e.id = b.id)
                       <=> PipelineEmbeds(b, log'.calls, log'.errors)]_vars

\* C24: while the background refresh runs and the user deletes a bookmark,
\* no step of the refresh leaves an embedding for an id that has no bookmark
\* row, and no step of the refresh stores a bookmark whose id the user
\* deleted after the refresh read the listing or the pending rows it is
\* writing from.
RefreshActs == fetch.background /\ fetch.pc # "idle" /\ fetch' # fetch

C24_RefreshDeleteInterleaving ==
    [][RefreshActs =>
          /\ \A e \in bookmarks_vec' : RowByID(bookmarks', e.id) # {}
          /\ \A id \in log.deleted : RowByID(bookmarks', id) = {}]_vars

\* a key step of the TUI, and the command it returns
KeyStep(key) == commands' = commands + 1 /\ tui'.key = key
Issued(c) ==
    /\ commands' = commands + 1
    /\ Len(tui'.cmds) = Len(tui.cmds) + 1
    /\ tui'.cmds[Len(tui'.cmds)] = c

\* C25: pressing q yields the quit command only when the list has focus:
\* never while the search input or a field of the edit modal has it
C25_QuitOnlyFromList ==
    [][KeyStep("q") /\ Issued(QuitCmd) => ~tui.searching /\ ~tui.editing]_vars

ConfirmationOpen(id) == tui.deleting /\ tui.deleteBookmark # ZeroBookmark /\ tui.deleteBookmark.id = id

StatusMoves(id, from, to) ==
    /\ \E r \in RowByID(bookmarks, id) : r.scrape_status = from
    /\ \E r \in RowByID(bookmarks', id) : r.scrape_status = to

\* C27: a bookmark in scrape_status success becomes pending only in a step
\* of markForReprocess: not by an upsert of a sync without reprocess, not by
\* the enrichment pass, not by an edit saved in the TUI
C27_PendingOnlyByReprocess ==
    [][\A id \in StoredIDs(bookmarks) : StatusMoves(id, "success", "pending") => FetchMark]_vars

\* C28: no step of the pipeline, of a sync upsert or of an edit saved in the
\* TUI takes a stored bookmark from scrape_status success to failed
C28_NoSuccessToFailed ==
    [][\A id \in StoredIDs(bookmarks) : ~StatusMoves(id, "success", "failed")]_vars

\* C29: a step that changes a stored bookmark row leaves it with updated_at
\* equal to the time of the step
C29_UpdatedAtAdvances ==
    [][\A r \in bookmarks : \A r2 \in RowByID(bookmarks', r.id) :
          r2 # r => r2.updated_at = now]_vars

StatusDomain == {"pending", "success", "failed"}

\* C30: the scrape_status of every stored bookmark is pending, success or
\* failed, so that every stored bookmark that is not success is among the
\* rows GetPending returns (there are fewer rows than its limit)
C30_StatusDomain ==
    \A r \in bookmarks :
        /\ r.scrape_status \in StatusDomain
        /\ r.scrape_status # "success" =>
              \A s \in GetPending(bookmarks, PendingLimit) : r \in Range(s)

\* C31: hybridRank is a function of its two lists: every sequence of ids it
\* may return for the inputs of the recorded call is the one it returned,
\* also when ids have equal fused scores
C31_RankerDeterminism ==
    sr.op = "hybridRank" =>
        \A p \in hybridRank(sr.fts, sr.vec) : RankedIDs(p) = RankedIDs(sr.out)

\* C32: no fetch of a source, incremental or forced, moves the stored
\* watermark of a source to an earlier time
C32_WatermarkMonotonic ==
    [][\A src \in Range(Sources) :
          metadata'[WatermarkKey(src)] >= metadata[WatermarkKey(src)]]_vars

\* C33: an incremental fetch returns exactly the items of the listing that
\* are newer than the watermark stored before the call, in whatever order
\* the service lists them
C33_OrderIndependence ==
    (sy.src # "" /\ sy.incremental /\ sy.before # 0) =>
        Range(sy.items) = {x \in Range(sy.listing) : x.created_at > sy.before}

\* a step of the pending loop of Fetch
PipelineActs == fetch.pc \in {"process", "persist"} /\ fetch' # fetch

\* C34: a step of the enrichment pass leaves the notes of every stored
\* bookmark as they were, also when the user has saved an edit since the
\* pass read its pending rows
C34_NotesUntouched ==
    [][PipelineActs =>
          \A r \in bookmarks : \A q \in RowByID(bookmarks', r.id) : q.notes = r.notes]_vars

\* C35: no id in the result of SearchWithEmbedding has a stored embedding
\* whose length differs from the length of the query vector
C35_MixedDimensionsSkipped ==
    sr.op = "SearchWithEmbedding" =>
        \A i \in DOMAIN sr.out : \A e \in GetAllWithEmbeddings(bookmarks_vec) :
            e.id = sr.out[i].ID => Len(e.emb) = Len(sr.emb)

\* C36: once the per-source loop of a forced cycle has ended with no source
\* and no store call failed, every URL a source returned in the cycle is in
\* the store
C36_ForcedResyncKeepsListed ==
    (fetch.force /\ fetch.pc \in {"pending", "process", "persist", "finish"}
     /\ log.failed = {}) =>
        \A u \in log.listed : RowByURL(bookmarks, u) # {}

\* C37: the orphan cleanup of a forced cycle deletes no bookmark whose URL
\* is on a page of the source's listing that the adapter did not read
C37_OrphansOnCompleteListing ==
    [][(fetch.pc = "delete" /\ fetch.force /\ fetch' # fetch) =>
          \A r \in bookmarks \ bookmarks' : r.url \notin log.unread]_vars

\* C38: when the upsert loop of a source ends, every item the source
\* returned that is not newer than the stored watermark of the source is in
\* the store, also when an upsert failed
C38_NothingLostBehindWatermark ==
    [][(fetch.pc = "upsert" /\ fetch' # fetch /\ fetch'.pc # "upsert") =>
          \A j \in DOMAIN fetch.items :
              fetch.items[j].created_at <= metadata'[WatermarkKey(fetch.src)] =>
                  RowByURL(bookmarks', fetch.items[j].url) # {}]_vars

\* C39: a step of the TUI leaves raw_content, scrape_status, scraped_at and
\* the hidden flag of every bookmark that stays in the store as they were,
\* and its embedding too; a saved edit changes none of them
C39_EditFrame ==
    [][/\ \A r \in bookmarks : \A q \in RowByID(bookmarks', r.id) :
             /\ q.raw_content = r.raw_content
             /\ q.scrape_status = r.scrape_status
             /\ q.scraped_at = r.scraped_at
             /\ q.hidden = r.hidden
       /\ \A e \in bookmarks_vec : RowByID(bookmarks', e.id) # {} => e \in bookmarks_vec']_vars


ActiveModes(m) ==
    (IF m.searching THEN {"searching"} ELSE {})
        \cup (IF m.editing THEN {"editing"} ELSE {})
        \cup (IF m.deleting THEN {"deleting"} ELSE {})

\* C40: at most one of the modes searching, editing and deleting is active
\* in every state of the TUI, and with the edit modal or the delete
\* confirmation open the keys /, enter and d open no further mode
C40_ModeExclusivity ==
    /\ [](Cardinality(ActiveModes(tui)) <= 1)
    /\ [][((tui.editing \/ tui.deleting)
            /\ (KeyStep("/") \/ KeyStep("enter") \/ KeyStep("d")))
              => ActiveModes(tui') \subseteq ActiveModes(tui)]_vars

====
